---- MODULE Spec2Model ----
(***************************************************************************)
(* TuneSwipe backend (server/app.py, server/database.py): the session /    *)
(* swipe bookkeeping of the Session Store, the token refresh logic of the  *)
(* Token Manager, the track search of the Catalog Fetcher and the Playlist *)
(* Publisher, as state machines over the persistent tables.                  *)
(* spotifyPlaylists is the list of playlists on the provider's side.        *)
(* inflight holds the requests that run step by step next to each other:   *)
(* their position in the handler and the values they have read so far.     *)
(*                                                                         *)
(* Python None / SQL NULL is the empty tuple <<>>, a present value v is    *)
(* <<v>>.  uuid4() identifiers are the position of the row in its table    *)
(* (rows are never deleted, so the position is fresh and unique).          *)
(* Time is counted in minutes of UTC.  Columns that no operation reads     *)
(* back (Songs.last_updated, creation dates of sessions and songs,         *)
(* artwork, popularity) are left out of the rows.                          *)
(***************************************************************************)
EXTENDS Integers, Sequences, FiniteSets, TLC

VARIABLES now, users, sessions, songs, swipes, playlists, spotifyPlaylists, resp, inflight

vars == <<now, users, sessions, songs, swipes, playlists, spotifyPlaylists, resp, inflight>>

----------------------------------------------------------------------------
(* Bounds of the model *)

\* the session store (Spec, SpecProgress)
MaxTime == 1

MaxSessions == 1

\* swipes recorded while time passes (Spec)
MaxTimedSwipes == 1

\* swipes recorded on the way to a target (SpecProgress, SpecAppend)
MaxSwipes == 2

\* sessions created (SpecCreate)
MaxCreated == 2

\* the token manager (SpecToken)
MaxTokenTime == 2

\* swipe numbering (SpecOrder)
MaxOrderSessions == 2

MaxOrderSwipes == 3

\* the playlist publisher (SpecPlaylist): playlists made on the provider
MaxPlaylists == 1

\* swipes written by requests that run side by side (SpecRace)
MaxRaceSwipes == 2

----------------------------------------------------------------------------
(* Values *)

None == <<>>

Some(v) == <<v>>

Min(a, b) == IF a < b THEN a ELSE b

\* dict.get(key, default) on an optional value
Get(opt, default) == IF opt = None THEN default ELSE opt[1]

UserIds == {"u1"}

Directions == {"LEFT", "RIGHT"}

DefaultTargetLength == 20

\* track payloads: a full provider track, one of another name, and one without
\* name and artists
\* artists is None (no list, or an empty one), Some(None) (a first artist without
\* a name) or Some(Some(name))
FullTrack == [name |-> Some("n1"), artists |-> Some(Some("a1"))]

OtherTrack == [name |-> Some("n2"), artists |-> Some(None)]

EmptyTrack == [name |-> None, artists |-> None]

\* SwipeSessions.session_status of a row inserted without one
DefaultSessionStatus == "ACTIVE"

NoResp == [op |-> "none"]

\* the requests that may run next to each other
RequestIds == {"r1", "r2"}

\* a request slot before any request: no position, nothing read
IdleRequest ==
    [pc |-> "idle", kind |-> "none", session_id |-> 0, spotify_id |-> "", direction |-> "",
     existing_song |-> None, song_id |-> None, next_order |-> 0, seen |-> {},
     song_error |-> "", status |-> "", http |-> 0, swipe_id |-> None]

NoRequests == [r \in RequestIds |-> IdleRequest]

----------------------------------------------------------------------------
(* Queries over the tables *)

SessionExists(sid) == sid \in 1..Len(sessions)

SwipesOf(sid) == {i \in 1..Len(swipes) : swipes[i].session_id = sid}

\* MAX(...) over a set of numbers, COALESCE(..., 0) for the empty set
SetMax(S) == IF S = {} THEN 0 ELSE CHOOSE y \in S : \A z \in S : z <= y

\* the numbering without its WHERE session_id = %s
NextSwipeOrderAllSessions(sid) ==
    SetMax({swipes[i].swipe_order : i \in 1..Len(swipes)}) + 1

\* a number taken from the count of the session's swipes
NextSwipeOrderCounting(sid) == Cardinality(SwipesOf(sid)) + 1

\* SELECT COALESCE(MAX(swipe_order), 0) + 1 FROM Swipes WHERE session_id = %s
NextSwipeOrder(sid) == SetMax({swipes[i].swipe_order : i \in SwipesOf(sid)}) + 1

\* COUNT(CASE WHEN sw.direction = 'RIGHT' THEN 1 END)
LikedCount(sid) == Cardinality({i \in SwipesOf(sid) : swipes[i].direction = "RIGHT"})

\* COUNT(sw.swipe_id)
TotalSwipes(sid) == Cardinality(SwipesOf(sid))

\* SELECT song_id FROM Songs WHERE spotify_id = %s  (fetchone)
FindSong(tbl, tid) == LET hits == {i \in 1..Len(tbl) : tbl[i].spotify_id = tid}
                      IN IF hits = {} THEN None
                         ELSE Some(CHOOSE i \in hits : \A j \in hits : i <= j)

\* Users(spotify_id) referenced by SwipeSessions.spotify_id
UserExists(uid) == uid \in DOMAIN users

\* Swipes.session_id references SwipeSessions, Swipes.song_id references Songs
SwipeForeignKeysOk(sid, song_id) == SessionExists(sid) /\ song_id \in 1..Len(songs)

----------------------------------------------------------------------------
(* Initial state: empty SwipeSessions, Songs and Swipes tables.  The user   *)
(* of the session store is registered the way the tests register one: a   *)
(* Users row with no tokens.                                               *)

BareUser == [display_name |-> "Test User", email |-> None,
             access_token |-> None, refresh_token |-> None, token_expires_at |-> None,
             creation_date |-> None, last_login |-> None]

Init ==
    /\ now = 0
    /\ users = [u \in UserIds |-> BareUser]
    /\ sessions = <<>>
    /\ songs = <<>>
    /\ swipes = <<>>
    /\ playlists = <<>>
    /\ spotifyPlaylists = <<>>
    /\ inflight = NoRequests
    /\ resp = NoResp

\* datetime.utcnow() moves on between requests
Tick ==
    /\ now' = now + 1
    /\ UNCHANGED <<inflight, users, sessions, songs, swipes, resp, playlists, spotifyPlaylists>>

----------------------------------------------------------------------------
(* POST /api/swipe_sessions *)

\* the preference payloads of the requests: an empty dict, a dict of genres, null
EmptyPrefs == "dict()"

GenrePrefs == "dict(genre='pop')"

NullPrefs == "None"

\* json.dumps(session_preferences)
JsonDumps(payload) ==
    CASE payload = EmptyPrefs -> "{}"
      [] payload = GenrePrefs -> "{\"genre\": \"pop\"}"
      [] payload = NullPrefs -> "null"

\* a row that always gets the default target
SessionRowDefaultTarget(spotify_id, target_playlist_length, session_preferences) ==
    [spotify_id |-> spotify_id,
     target_playlist_length |-> DefaultTargetLength,
     session_preferences |-> JsonDumps(session_preferences),
     session_status |-> DefaultSessionStatus,
     completion_date |-> None]

\* INSERT INTO SwipeSessions (session_id, spotify_id, target_playlist_length,
\* session_preferences, creation_date): status and completion date are the
\* table's defaults
SessionRow(spotify_id, target_playlist_length, session_preferences) ==
    [spotify_id |-> spotify_id,
     target_playlist_length |-> target_playlist_length,
     session_preferences |-> JsonDumps(session_preferences),
     session_status |-> DefaultSessionStatus,
     completion_date |-> None]

\* the connection a request opened, as it is when the request returns: "none"
\* when none was opened (also when the database could not be reached, dbOk =
\* FALSE), "closed", or "open" when the path taken has no close
ConnectionLeft(opened, closed) ==
    IF ~opened THEN "none" ELSE IF closed THEN "closed" ELSE "open"

CreateSwipeSession(spotify_id, target, prefs, dbOk) ==
    LET target_playlist_length == Get(target, DefaultTargetLength)
        session_preferences == Get(prefs, EmptyPrefs)
        session_id == Len(sessions) + 1
    IN  /\ IF spotify_id = None
           THEN /\ resp' = [op |-> "create_swipe_session", http |-> 400, session_id |-> None,
                            connection |-> ConnectionLeft(FALSE, FALSE)]
                /\ UNCHANGED sessions
           ELSE IF dbOk /\ UserExists(spotify_id[1])
           THEN /\ sessions' = Append(sessions,
                        SessionRow(spotify_id[1], target_playlist_length,
                                   session_preferences))
                /\ resp' = [op |-> "create_swipe_session", http |-> 200,
                            session_id |-> Some(session_id),
                            connection |-> ConnectionLeft(TRUE, TRUE)]
           ELSE /\ resp' = [op |-> "create_swipe_session", http |-> 500, session_id |-> None,
                            connection |-> ConnectionLeft(dbOk, FALSE)]
                /\ UNCHANGED sessions
        /\ UNCHANGED <<inflight, now, users, songs, swipes, playlists, spotifyPlaylists>>

----------------------------------------------------------------------------
(* Database.add_song_to_session *)

\* artist_name = 'Unknown Artist' unless artists[0] carries a name
ArtistName(track_data) ==
    IF track_data.artists = None THEN "Unknown Artist"
    ELSE Get(track_data.artists[1], "Unknown Artist")

SongRow(song_id, spotify_id, track_data) ==
    [song_id |-> song_id,
     spotify_id |-> spotify_id,
     title |-> Get(track_data.name, "Unknown Title"),
     artist |-> ArtistName(track_data)]

\* an upsert that rewrites the existing row from the new payload
SongsAfterAddOverwriting(tbl, spotify_id, track_data) ==
    IF FindSong(tbl, spotify_id) # None
    THEN [tbl EXCEPT ![FindSong(tbl, spotify_id)[1]] =
                SongRow(FindSong(tbl, spotify_id)[1], spotify_id, track_data)]
    ELSE Append(tbl, SongRow(Len(tbl) + 1, spotify_id, track_data))

\* the Songs table after the call: an existing row is left alone, a new one appended
SongsAfterAdd(tbl, spotify_id, track_data) ==
    IF FindSong(tbl, spotify_id) # None THEN tbl
    ELSE Append(tbl, SongRow(Len(tbl) + 1, spotify_id, track_data))

\* the song_id the call returns
SongIdOfAdd(tbl, spotify_id) ==
    IF FindSong(tbl, spotify_id) # None THEN FindSong(tbl, spotify_id)[1]
    ELSE Len(tbl) + 1

AddSongToSession(session_id, spotify_id, track_data, dbOk) ==
    /\ IF dbOk
       THEN /\ songs' = SongsAfterAdd(songs, spotify_id, track_data)
            /\ resp' = [op |-> "add_song_to_session", spotify_id |-> spotify_id,
                        song_id |-> Some(SongIdOfAdd(songs, spotify_id))]
       ELSE /\ resp' = [op |-> "add_song_to_session", spotify_id |-> spotify_id,
                        song_id |-> None]
            /\ UNCHANGED songs
    /\ UNCHANGED <<inflight, now, users, sessions, swipes, playlists, spotifyPlaylists>>

----------------------------------------------------------------------------
(* Database.record_swipe *)

SwipeRow(session_id, song_id, direction) ==
    [swipe_id |-> Len(swipes) + 1,
     session_id |-> session_id,
     song_id |-> song_id,
     direction |-> direction,
     swipe_order |-> NextSwipeOrder(session_id),
     swipe_timestamp |-> now]

\* an insert that replaces the session's earlier swipe of the same song
RecordSwipeReplacing(session_id, song_id, direction, dbOk) ==
    LET earlier == {i \in SwipesOf(session_id) : swipes[i].song_id = song_id}
    IN  /\ IF dbOk /\ SwipeForeignKeysOk(session_id, song_id)
           THEN /\ swipes' = IF earlier = {}
                             THEN Append(swipes, SwipeRow(session_id, song_id, direction))
                             ELSE [i \in 1..Len(swipes) |->
                                     IF i \in earlier
                                     THEN [swipes[i] EXCEPT !.direction = direction,
                                                            !.swipe_timestamp = now]
                                     ELSE swipes[i]]
                /\ resp' = [op |-> "record_swipe", session_id |-> session_id,
                            raised |-> FALSE, swipe_id |-> Some(Len(swipes) + 1)]
           ELSE /\ resp' = [op |-> "record_swipe", session_id |-> session_id,
                            raised |-> TRUE, swipe_id |-> None]
                /\ UNCHANGED swipes
        /\ UNCHANGED <<inflight, now, users, sessions, songs, playlists, spotifyPlaylists>>

\* an insert that is refused once the session is completed
RecordSwipeActiveOnly(session_id, song_id, direction, dbOk) ==
    /\ IF /\ dbOk
          /\ SwipeForeignKeysOk(session_id, song_id)
          /\ sessions[session_id].session_status = "ACTIVE"
       THEN /\ swipes' = Append(swipes, SwipeRow(session_id, song_id, direction))
            /\ resp' = [op |-> "record_swipe", session_id |-> session_id,
                        raised |-> FALSE, swipe_id |-> Some(Len(swipes) + 1)]
       ELSE /\ resp' = [op |-> "record_swipe", session_id |-> session_id,
                        raised |-> TRUE, swipe_id |-> None]
            /\ UNCHANGED swipes
    /\ UNCHANGED <<inflight, now, users, sessions, songs, playlists, spotifyPlaylists>>

RecordSwipe(session_id, song_id, direction, dbOk) ==
    /\ IF dbOk /\ SwipeForeignKeysOk(session_id, song_id)
       THEN /\ swipes' = Append(swipes, SwipeRow(session_id, song_id, direction))
            /\ resp' = [op |-> "record_swipe", session_id |-> session_id,
                        raised |-> FALSE, swipe_id |-> Some(Len(swipes) + 1)]
       ELSE /\ resp' = [op |-> "record_swipe", session_id |-> session_id,
                        raised |-> TRUE, swipe_id |-> None]
            /\ UNCHANGED swipes
    /\ UNCHANGED <<inflight, now, users, sessions, songs, playlists, spotifyPlaylists>>

----------------------------------------------------------------------------
(* Database.get_session_progress and GET /api/session_progress/<session_id> *)

\* get_session_progress.sql: the session's target and its swipe counts, or no row
ProgressQuery(session_id) ==
    IF SessionExists(session_id)
    THEN Some([target_playlist_length |-> sessions[session_id].target_playlist_length,
               liked_count |-> LikedCount(session_id),
               total_swipes |-> TotalSwipes(session_id)])
    ELSE None

\* the percentage capped at 100
ProgressPercentageCapped(liked_count, target) ==
    [num |-> Min(liked_count, target) * 100, den |-> target]

\* (liked_count / target_playlist_length) * 100, kept as the fraction num/den
ProgressPercentage(liked_count, target) == [num |-> liked_count * 100, den |-> target]

\* completion only once the target is exceeded
IsCompleteStrict(liked_count, target) == liked_count > target

\* liked_count >= target_playlist_length
IsComplete(liked_count, target) == liked_count >= target

\* a computation that reports 0 percent for a target of 0
SessionProgressGuarded(session_id, dbOk) ==
    LET result == ProgressQuery(session_id)
    IN  IF ~dbOk \/ result = None THEN None
        ELSE Some([target_playlist_length |-> result[1].target_playlist_length,
                   liked_count |-> result[1].liked_count,
                   total_swipes |-> result[1].total_swipes,
                   progress_percentage |->
                       IF result[1].target_playlist_length = 0 THEN [num |-> 0, den |-> 1]
                       ELSE ProgressPercentage(result[1].liked_count,
                                               result[1].target_playlist_length),
                   is_complete |->
                       IsComplete(result[1].liked_count,
                                  result[1].target_playlist_length)])

\* the value Database.get_session_progress returns
SessionProgress(session_id, dbOk) ==
    LET result == ProgressQuery(session_id)
    IN  IF ~dbOk THEN None
        ELSE IF result = None THEN None
        ELSE IF result[1].target_playlist_length = 0 THEN None  \* ZeroDivisionError, swallowed
        ELSE Some([target_playlist_length |-> result[1].target_playlist_length,
                   liked_count |-> result[1].liked_count,
                   total_swipes |-> result[1].total_swipes,
                   progress_percentage |->
                       ProgressPercentage(result[1].liked_count,
                                          result[1].target_playlist_length),
                   is_complete |->
                       IsComplete(result[1].liked_count,
                                  result[1].target_playlist_length)])

GetSessionProgress(session_id, dbOk) ==
    LET progress == SessionProgress(session_id, dbOk)
    IN  /\ resp' = [op |-> "get_session_progress", session_id |-> session_id,
                    http |-> IF progress = None THEN 404 ELSE 200,
                    message |-> IF progress = None THEN "Session not found" ELSE "",
                    data |-> progress,
                    connection |-> ConnectionLeft(dbOk, TRUE)]
        /\ UNCHANGED <<inflight, now, users, sessions, songs, swipes, playlists, spotifyPlaylists>>

----------------------------------------------------------------------------
(* Database.complete_session and POST /api/complete_session/<session_id> *)

\* stats that fall back to the zero defaults once the session is completed
SessionStatsDefaultWhenCompleted(session_id) ==
    IF sessions[session_id].session_status = "COMPLETED"
    THEN [target_playlist_length |-> sessions[session_id].target_playlist_length,
          liked_count |-> 0, total_swipes |-> 0]
    ELSE [target_playlist_length |-> sessions[session_id].target_playlist_length,
          liked_count |-> LikedCount(session_id),
          total_swipes |-> TotalSwipes(session_id)]

\* the aggregate row of the stats query
SessionStats(session_id) ==
    [target_playlist_length |-> sessions[session_id].target_playlist_length,
     liked_count |-> LikedCount(session_id),
     total_swipes |-> TotalSwipes(session_id)]

\* the UPDATE without the check of the status read before
SessionAfterCompleteUnchecked(session) ==
    [session EXCEPT !.session_status = "COMPLETED", !.completion_date = Some(now)]

\* UPDATE SwipeSessions SET session_status = 'COMPLETED', completion_date = utcnow(),
\* only if the status read before was not COMPLETED
SessionAfterComplete(session) ==
    IF session.session_status # "COMPLETED"
    THEN [session EXCEPT !.session_status = "COMPLETED", !.completion_date = Some(now)]
    ELSE session

CompleteSession(session_id, dbOk) ==
    /\ IF ~dbOk
       THEN /\ resp' = [op |-> "complete_session", session_id |-> session_id,
                        success |-> FALSE, error |-> "db error", http |-> 500,
                        stats |-> None, printed |-> "Error completing session",
                        connection |-> ConnectionLeft(FALSE, FALSE)]
            /\ UNCHANGED sessions
       ELSE IF ~SessionExists(session_id)
       THEN /\ resp' = [op |-> "complete_session", session_id |-> session_id,
                        success |-> FALSE, error |-> "Session not found", http |-> 500,
                        stats |-> None, printed |-> "",
                        connection |-> ConnectionLeft(TRUE, FALSE)]
            /\ UNCHANGED sessions
       ELSE /\ sessions' = [sessions EXCEPT
                                ![session_id] = SessionAfterComplete(sessions[session_id])]
            /\ resp' = [op |-> "complete_session", session_id |-> session_id,
                        success |-> TRUE, error |-> "", http |-> 200,
                        stats |-> Some(SessionStats(session_id)),
                        printed |-> IF sessions[session_id].session_status = "COMPLETED"
                                    THEN "is already completed"
                                    ELSE "marked as completed",
                        connection |-> ConnectionLeft(TRUE, TRUE)]
    /\ UNCHANGED <<inflight, now, users, songs, swipes, playlists, spotifyPlaylists>>

----------------------------------------------------------------------------
(* GET /api/swipe_sessions?spotify_id: read-only listing *)

GetSwipeSessions(spotify_id, dbOk) ==
    /\ resp' = IF spotify_id = None
               THEN [op |-> "get_swipe_sessions", http |-> 400, total |-> 0]
               ELSE IF ~dbOk
               THEN [op |-> "get_swipe_sessions", http |-> 500, total |-> 0]
               ELSE [op |-> "get_swipe_sessions", http |-> 200,
                     total |-> Cardinality({i \in 1..Len(sessions) :
                                               sessions[i].spotify_id = spotify_id[1]})]
    /\ UNCHANGED <<inflight, now, users, sessions, songs, swipes, playlists, spotifyPlaylists>>

----------------------------------------------------------------------------------------------------------------------------------------
(* GET /api/get_song *)

LimitCap == 50

\* unique_tracks[:limit]
Take(seq, n) ==
    IF n >= 0 THEN SubSeq(seq, 1, Min(n, Len(seq)))
    ELSE SubSeq(seq, 1, IF Len(seq) + n > 0 THEN Len(seq) + n ELSE 0)

\* Database.get_session_seen_songs: provider ids of the songs swiped in the session
SessionSeenSongs(session_id) ==
    {songs[swipes[i].song_id].spotify_id : i \in SwipesOf(session_id)}

\* the filter of both search loops
ValidTrack(track, seen_songs) ==
    /\ track.id # None
    /\ track.id[1] \notin seen_songs
    /\ track.name # None
    /\ track.artists # None

RECURSIVE FilterTracks(_, _)
FilterTracks(tracks, seen_songs) ==
    IF tracks = <<>> THEN <<>>
    ELSE IF ValidTrack(Head(tracks), seen_songs)
    THEN <<Head(tracks)>> \o FilterTracks(Tail(tracks), seen_songs)
    ELSE FilterTracks(Tail(tracks), seen_songs)

\* a loop that ends at the first search that raises
RECURSIVE GenreTracksStopping(_, _)
GenreTracksStopping(results, seen_songs) ==
    IF results = <<>> \/ Head(results) = None THEN <<>>
    ELSE FilterTracks(Head(results)[1], seen_songs)
         \o GenreTracksStopping(Tail(results), seen_songs)

\* all_tracks after the per-genre loop; a search that raised contributes nothing
RECURSIVE GenreTracks(_, _)
GenreTracks(results, seen_songs) ==
    IF results = <<>> THEN <<>>
    ELSE (IF Head(results) = None THEN <<>>
          ELSE FilterTracks(Head(results)[1], seen_songs))
         \o GenreTracks(Tail(results), seen_songs)

\* list({t['id']: t for t in all_tracks}.values()): one track per id, at the place
\* of the id's first occurrence, carrying the id's last occurrence
UniqueTracks(all_tracks) ==
    LET firsts == {i \in 1..Len(all_tracks) :
                      \A j \in 1..(i - 1) : all_tracks[j].id # all_tracks[i].id}
        last(i) == CHOOSE k \in 1..Len(all_tracks) :
                      /\ all_tracks[k].id = all_tracks[i].id
                      /\ \A m \in (k + 1)..Len(all_tracks) : all_tracks[m].id # all_tracks[i].id
        RECURSIVE build(_)
        build(i) == IF i > Len(all_tracks) THEN <<>>
                    ELSE IF i \in firsts THEN <<all_tracks[last(i)]>> \o build(i + 1)
                    ELSE build(i + 1)
    IN  build(1)

\* random.shuffle: every order of the list
Shuffles(seq) ==
    {[i \in 1..Len(seq) |-> seq[f[i]]] :
        f \in {g \in [1..Len(seq) -> 1..Len(seq)] :
                  \A a, b \in 1..Len(seq) : a # b => g[a] # g[b]}}

\* the Songs table after the loop over the selected tracks; a track whose first
\* artist has no name raises before the insert, a failed insert is swallowed
RECURSIVE SongsAfterServing(_, _, _)
SongsAfterServing(tbl, selected, addFails) ==
    IF selected = <<>> THEN tbl
    ELSE LET track == Head(selected)
             added == IF track.artists[1] = None \/ track.id[1] \in addFails THEN tbl
                      ELSE SongsAfterAdd(tbl, track.id[1], track)
         IN  SongsAfterServing(added, Tail(selected), addFails)

\* provider track ids
TrackIds == {"t1", "t2", "t3"}

\* what one of the preview provider's two searches does: the request raises, the
\* answer has no data, or its first entry has or lacks a preview
DeezerSearches == {"raises", "no_data", "preview", "no_preview"}

\* search_deezer_preview: the exact search, then the general one when the exact
\* search found no data; None on any error
SearchDeezerPreview(answer) ==
    IF answer.exact = "raises" THEN None
    ELSE IF answer.exact = "preview" THEN Some("preview")
    ELSE IF answer.exact = "no_preview" THEN None
    ELSE IF answer.general = "raises" THEN None
    ELSE IF answer.general = "preview" THEN Some("preview")
    ELSE None

\* a preview provider that cannot be reached
NoPreviews == [t \in TrackIds |-> [exact |-> "raises", general |-> "raises"]]

\* a loop that leaves out the tracks without a preview
RECURSIVE ProcessedTracksNeedingPreview(_, _)
ProcessedTracksNeedingPreview(selected, previews) ==
    IF selected = <<>> THEN <<>>
    ELSE LET track == Head(selected)
         IN  (IF track.artists[1] = None
                 \/ SearchDeezerPreview(previews[track.id[1]]) = None THEN <<>>
              ELSE <<[spotify_id |-> track.id[1],
                      name |-> track.name[1],
                      artist |-> track.artists[1][1],
                      previewUrl |-> SearchDeezerPreview(previews[track.id[1]])]>>)
             \o ProcessedTracksNeedingPreview(Tail(selected), previews)

\* the processed tracks of the response; previews gives, for each track id, what
\* the preview provider's searches for that track do
RECURSIVE ProcessedTracks(_, _)
ProcessedTracks(selected, previews) ==
    IF selected = <<>> THEN <<>>
    ELSE LET track == Head(selected)
         IN  (IF track.artists[1] = None THEN <<>>
              ELSE <<[spotify_id |-> track.id[1],
                      name |-> track.name[1],
                      artist |-> track.artists[1][1],
                      previewUrl |-> SearchDeezerPreview(previews[track.id[1]])]>>)
             \o ProcessedTracks(Tail(selected), previews)

\* the request a get_song response answers, with the preview provider's behaviour
SongRequest(clientOk, genreResults, fallbackResult, limitArg, session_id, seenOk, previews) ==
    [op |-> "get_song", client_ok |-> clientOk, genres |-> genreResults,
     fallback_answer |-> fallbackResult, limit |-> limitArg,
     session_id |-> session_id, seen_ok |-> seenOk, previews |-> previews]

\* clientOk: the provider client could be set up; genreResults: one search answer
\* per genre (None when the search raises); fallbackResult: the answer of the
\* OR-combined search; seenOk: the seen-songs query is served
GetSong(clientOk, genreResults, fallbackResult, limitArg, session_id, seenOk, previews, addFails) ==
    LET limit == Min(limitArg, LimitCap)
        seen_songs == IF session_id # None /\ seenOk
                      THEN SessionSeenSongs(session_id[1]) ELSE {}
        genre_tracks == GenreTracks(genreResults, seen_songs)
        all_tracks == IF genre_tracks # <<>> THEN genre_tracks
                      ELSE IF fallbackResult = None THEN <<>>
                      ELSE FilterTracks(fallbackResult[1], seen_songs)
        unique_tracks == UniqueTracks(all_tracks)
        request == SongRequest(clientOk, genreResults, fallbackResult, limitArg,
                               session_id, seenOk, previews)
    IN  /\ IF ~clientOk
           THEN /\ resp' = [http |-> 500, tracks |-> <<>>, fallback |-> FALSE] @@ request
                /\ UNCHANGED songs
           ELSE IF unique_tracks = <<>>
           THEN /\ resp' = [http |-> 400, tracks |-> <<>>,
                            fallback |-> genre_tracks = <<>>] @@ request
                /\ UNCHANGED songs
           ELSE \E shuffled \in Shuffles(unique_tracks) :
                  LET selected_tracks == Take(shuffled, limit)
                  IN  /\ songs' = IF session_id = None THEN songs
                                  ELSE SongsAfterServing(songs, selected_tracks, addFails)
                      /\ resp' = [http |-> 200,
                                  tracks |-> ProcessedTracks(selected_tracks, previews),
                                  fallback |-> genre_tracks = <<>>] @@ request
        /\ UNCHANGED <<inflight, now, users, sessions, swipes, playlists, spotifyPlaylists>>

----------------------------------------------------------------------------
(* The session store: every operation on one session's life cycle *)

\* session ids a client names: ids of sessions that exist or do not exist yet
SessionIdInputs == 1..MaxSessions

SpotifyIdInputs == {None, Some("u1"), Some("u2")}

TargetInputs == {Some(1), Some(2)}

\* what one provider search gives: an exception, nothing, or the track t1
SearchResults == {None, Some(<<>>), Some(<<[id |-> Some("t1")] @@ FullTrack>>)}

Next ==
    \/ now < MaxTime /\ Tick
    \/ \E u \in SpotifyIdInputs, t \in TargetInputs, ok \in BOOLEAN :
          /\ Len(sessions) < MaxSessions
          /\ CreateSwipeSession(u, t, None, ok)
    \/ \E s \in SessionIdInputs, ok \in BOOLEAN :
          AddSongToSession(s, "t1", FullTrack, ok)
    \/ \E s \in SessionIdInputs, g \in 1..(Len(songs) + 1), d \in Directions,
          ok \in BOOLEAN :
          /\ Len(swipes) < MaxTimedSwipes
          /\ RecordSwipe(s, g, d, ok)
    \/ \E s \in SessionIdInputs, ok \in BOOLEAN : GetSessionProgress(s, ok)
    \/ \E s \in SessionIdInputs, ok \in BOOLEAN : CompleteSession(s, ok)
    \/ \E u \in SpotifyIdInputs, ok \in BOOLEAN : GetSwipeSessions(u, ok)
    \/ \E r \in SearchResults, s \in {Some(i) : i \in SessionIdInputs} :
          GetSong(TRUE, <<r>>, r, 20, s, TRUE, NoPreviews, {})

Spec == Init /\ [][Next]_vars

----------------------------------------------------------------------------
(* Progress of a session: swipes recorded up to and beyond the target *)

NextProgress ==
    \/ \E u \in SpotifyIdInputs, t \in TargetInputs, ok \in BOOLEAN :
          /\ Len(sessions) < MaxSessions
          /\ CreateSwipeSession(u, t, None, ok)
    \/ \E s \in SessionIdInputs, ok \in BOOLEAN :
          AddSongToSession(s, "t1", FullTrack, ok)
    \/ \E s \in SessionIdInputs, g \in 1..(Len(songs) + 1), d \in Directions,
          ok \in BOOLEAN :
          /\ Len(swipes) < MaxSwipes
          /\ RecordSwipe(s, g, d, ok)
    \/ \E s \in SessionIdInputs, ok \in BOOLEAN : GetSessionProgress(s, ok)
    \/ \E s \in SessionIdInputs, ok \in BOOLEAN : CompleteSession(s, ok)

SpecProgress == Init /\ [][NextProgress]_vars

----------------------------------------------------------------------------
(* Session creation: every request body of POST /api/swipe_sessions *)

CreateTargets == {None, Some(0), Some(5)}

CreatePrefs == {None, Some(EmptyPrefs), Some(GenrePrefs), Some(NullPrefs)}

NextCreate ==
    \/ \E u \in SpotifyIdInputs, t \in CreateTargets, p \in CreatePrefs, ok \in BOOLEAN :
          /\ Len(sessions) < MaxCreated
          /\ CreateSwipeSession(u, t, p, ok)
    \/ \E s \in 1..MaxCreated : GetSessionProgress(s, TRUE)

SpecCreate == Init /\ [][NextCreate]_vars

----------------------------------------------------------------------------
(* The Swipes table over time: one session swiped, served and completed *)

OneTrack == <<[id |-> Some("t1")] @@ FullTrack>>

NextAppend ==
    \/ now < MaxTime /\ Tick
    \/ /\ Len(sessions) < MaxSessions
       /\ CreateSwipeSession(Some("u1"), Some(1), None, TRUE)
    \/ \E s \in SessionIdInputs, g \in 1..(Len(songs) + 1), d \in Directions,
          ok \in BOOLEAN :
          /\ Len(swipes) < MaxSwipes
          /\ RecordSwipe(s, g, d, ok)
    \/ \E s \in SessionIdInputs : GetSessionProgress(s, TRUE)
    \/ \E s \in SessionIdInputs : CompleteSession(s, TRUE)
    \/ GetSwipeSessions(Some("u1"), TRUE)
    \/ \E s \in SessionIdInputs :
          GetSong(TRUE, <<Some(OneTrack)>>, None, 20, Some(s), TRUE, NoPreviews, {})

SpecAppend == Init /\ [][NextAppend]_vars

----------------------------------------------------------------------------
(* The catalog fetcher: get_song over search answers, limits and seen songs *)

TrackOne == [id |-> Some("t1")] @@ FullTrack

TrackTwo == [id |-> Some("t2"), name |-> Some("n2"), artists |-> Some(Some("a2"))]

\* a track whose first artist has no name
TrackThree == [id |-> Some("t3")] @@ OtherTrack

\* a track without an id
TrackNoId == [id |-> None] @@ FullTrack

\* answers of one provider search: it raises, or returns these items
SearchAnswers ==
    {None, Some(<<>>), Some(<<TrackOne, TrackTwo>>), Some(<<TrackTwo, TrackThree, TrackTwo>>),
     Some(<<TrackNoId, TrackOne>>)}

\* the answers to the searches of one or two genres
GenreAnswers ==
    {<<r>> : r \in SearchAnswers}
        \cup {<<None, Some(<<TrackOne, TrackTwo>>)>>,
              <<Some(<<TrackOne, TrackTwo>>), Some(<<TrackTwo, TrackThree, TrackTwo>>)>>}

\* the answers of the OR-combined search
FallbackAnswers == {None, Some(<<>>), Some(<<TrackOne, TrackTwo>>)}

\* the limit query parameter
LimitInputs == {-1, 1, 60}

\* session 1 with its seen-songs query served, under every limit; no session
\* named, and the seen-songs query failing
SeenContexts ==
    {[session_id |-> Some(1), seen_ok |-> TRUE, limit |-> l] : l \in LimitInputs}
        \cup {[session_id |-> None, seen_ok |-> TRUE, limit |-> 60],
              [session_id |-> Some(1), seen_ok |-> FALSE, limit |-> 60]}

\* the preview provider's behaviour per track
PreviewWorlds ==
    {NoPreviews,
     [t \in TrackIds |-> IF t = "t1" THEN [exact |-> "no_data", general |-> "preview"]
                         ELSE [exact |-> "no_data", general |-> "no_data"]],
     [t \in TrackIds |-> IF t = "t1" THEN [exact |-> "no_preview", general |-> "preview"]
                         ELSE [exact |-> "no_data", general |-> "raises"]]}

\* one session that has been served the two named tracks
InitCatalog ==
    /\ now = 0
    /\ users = [u \in UserIds |-> BareUser]
    /\ sessions = <<SessionRow("u1", 2, EmptyPrefs)>>
    /\ songs = SongsAfterAdd(SongsAfterAdd(<<>>, "t1", TrackOne), "t2", TrackTwo)
    /\ swipes = <<>>
    /\ playlists = <<>>
    /\ spotifyPlaylists = <<>>
    /\ inflight = NoRequests
    /\ resp = NoResp

NextCatalog ==
    \/ \E g \in 1..Len(songs) :
          /\ \A i \in 1..Len(swipes) : swipes[i].song_id # g
          /\ RecordSwipe(1, g, "RIGHT", TRUE)
    \/ \E gs \in GenreAnswers, f \in FallbackAnswers, ctx \in SeenContexts,
          pv \in PreviewWorlds :
          GetSong(TRUE, gs, f, ctx.limit, ctx.session_id, ctx.seen_ok, pv, {})
    \/ GetSong(FALSE, <<None>>, None, 20, None, TRUE, NoPreviews, {})

SpecCatalog == InitCatalog /\ [][NextCatalog]_vars

----------------------------------------------------------------------------
(* Swipe numbering: swipes recorded one after another on several sessions *)

NextOrder ==
    \/ \E ok \in BOOLEAN :
          /\ Len(sessions) < MaxOrderSessions
          /\ CreateSwipeSession(Some("u1"), None, None, ok)
    \/ \E ok \in BOOLEAN : AddSongToSession(1, "t1", FullTrack, ok)
    \/ \E s \in 1..MaxOrderSessions, g \in 1..(Len(songs) + 1), d \in Directions,
          ok \in BOOLEAN :
          /\ Len(swipes) < MaxOrderSwipes
          /\ RecordSwipe(s, g, d, ok)

SpecOrder == Init /\ [][NextOrder]_vars

----------------------------------------------------------------------------
(* The Songs table: add_song_to_session with any session id and payload *)

TrackPayloads == {FullTrack, OtherTrack, EmptyTrack}

NextSongs ==
    \E s \in 1..2, t \in TrackIds, d \in TrackPayloads, ok \in BOOLEAN :
        AddSongToSession(s, t, d, ok)

SpecSongs == Init /\ [][NextSongs]_vars

----------------------------------------------------------------------------
(* Requests side by side: POST /api/swipe and the add_song_to_session calls  *)
(* of get_song, one database statement at a time.  Each statement sees the  *)
(* rows committed so far; each method commits before it returns.            *)

\* the song_data of a swipe request and the track of a get_song response
SongData == FullTrack

\* a table without the key
SongKeyFreeAlways(tid) == TRUE

\* Songs.spotify_id is a unique key: an INSERT of a track id that has a row fails
SongKeyFree(tid) == FindSong(songs, tid) = None

Running(r) == inflight[r].pc \in {"song_select", "song_insert", "swipe_select", "swipe_insert"}

\* POST /api/swipe arrives: session_id, song_data['spotify_id'] and direction
\* are read from the body and add_song_to_session is entered
SwipeRequest(r, session_id, spotify_id, direction) ==
    /\ ~Running(r)
    /\ inflight' = [inflight EXCEPT ![r] =
            [IdleRequest EXCEPT !.pc = "song_select", !.kind = "swipe",
                                !.session_id = session_id, !.spotify_id = spotify_id,
                                !.direction = direction]]
    /\ UNCHANGED <<now, users, sessions, songs, swipes, playlists, spotifyPlaylists, resp>>

\* get_song reaches add_song_to_session for a selected track
ServeRequest(r, session_id, spotify_id) ==
    /\ ~Running(r)
    /\ inflight' = [inflight EXCEPT ![r] =
            [IdleRequest EXCEPT !.pc = "song_select", !.kind = "serve",
                                !.session_id = session_id, !.spotify_id = spotify_id]]
    /\ UNCHANGED <<now, users, sessions, songs, swipes, playlists, spotifyPlaylists, resp>>

\* SELECT song_id FROM Songs WHERE spotify_id = %s
AddSongSelect(r) ==
    /\ inflight[r].pc = "song_select"
    /\ inflight' = [inflight EXCEPT ![r].existing_song = FindSong(songs, inflight[r].spotify_id),
                                    ![r].pc = "song_insert"]
    /\ UNCHANGED <<now, users, sessions, songs, swipes, playlists, spotifyPlaylists, resp>>

\* the response of POST /api/swipe
SwipeResponse(r, http, swipe_id) ==
    [op |-> "swipe", request |-> r, http |-> http,
     status |-> IF http = 200 THEN "success" ELSE "error", swipe_id |-> swipe_id]

\* an insert that is held back until the swipe is written
SongsAfterCommitDeferred(req, inserted) == songs

\* the Songs table after the commit of add_song_to_session
SongsAfterCommit(req, inserted) ==
    IF inserted THEN Append(songs, SongRow(Len(songs) + 1, req.spotify_id, SongData))
    ELSE songs

\* the rest of add_song_to_session: the INSERT when the SELECT found no row, the
\* commit, and what the caller does with the song id.  dbOk: the INSERT is
\* served.  A failed INSERT is rolled back and the method returns None: the
\* swipe endpoint raises ValueError and answers 500, get_song goes on
AddSongCommit(r, dbOk) ==
    LET req == inflight[r]
        inserts == req.existing_song = None
        served == ~inserts \/ (dbOk /\ SongKeyFree(req.spotify_id))
        song_id == IF ~served THEN None
                   ELSE IF inserts THEN Some(Len(songs) + 1) ELSE req.existing_song
        song_error == IF served THEN ""
                      ELSE IF dbOk THEN "duplicate key" ELSE "database error"
    IN  /\ req.pc = "song_insert"
        /\ songs' = SongsAfterCommit(req, served /\ inserts)
        /\ IF req.kind = "serve"
           THEN /\ inflight' = [inflight EXCEPT ![r] =
                        [req EXCEPT !.song_id = song_id, !.pc = "done",
                                    !.song_error = song_error,
                                    !.status = "served", !.http = 200]]
                /\ UNCHANGED resp
           ELSE IF song_id = None
           THEN /\ inflight' = [inflight EXCEPT ![r] =
                        [req EXCEPT !.pc = "done", !.status = "error", !.http = 500,
                                    !.song_error = song_error]]
                /\ resp' = SwipeResponse(r, 500, None)
           ELSE /\ inflight' = [inflight EXCEPT ![r] =
                        [req EXCEPT !.song_id = song_id, !.pc = "swipe_select"]]
                /\ UNCHANGED resp
        /\ UNCHANGED <<now, users, sessions, swipes, playlists, spotifyPlaylists>>

\* SELECT COALESCE(MAX(swipe_order), 0) + 1 FROM Swipes WHERE session_id = %s;
\* seen notes the rows of the session the statement saw
RecordSwipeSelect(r) ==
    /\ inflight[r].pc = "swipe_select"
    /\ inflight' = [inflight EXCEPT ![r].next_order = NextSwipeOrder(inflight[r].session_id),
                                    ![r].seen = SwipesOf(inflight[r].session_id),
                                    ![r].pc = "swipe_insert"]
    /\ UNCHANGED <<now, users, sessions, songs, swipes, playlists, spotifyPlaylists, resp>>

\* an insert that numbers the swipe when it is written
SwipeRowOfRenumbered(req) ==
    SwipeRow(req.session_id, req.song_id[1], req.direction)

\* the row of the INSERT: the order is the one read before
SwipeRowOf(req) ==
    [SwipeRow(req.session_id, req.song_id[1], req.direction)
        EXCEPT !.swipe_order = req.next_order]

\* a handler that answers success although the insert failed
SwipeCommitStatusSwallowing(inserted) == 200

\* the status of POST /api/swipe after record_swipe: it re-raises a failure
SwipeCommitStatus(inserted) == IF inserted THEN 200 ELSE 500

\* INSERT INTO Swipes, commit, and the response.  dbOk: the INSERT is served;
\* it fails as well when the session or the song does not exist
RecordSwipeCommit(r, dbOk) ==
    LET req == inflight[r]
        inserted == dbOk /\ SwipeForeignKeysOk(req.session_id, req.song_id[1])
        swipe_id == IF inserted THEN Some(Len(swipes) + 1) ELSE None
        http == SwipeCommitStatus(inserted)
    IN  /\ req.pc = "swipe_insert"
        /\ swipes' = IF inserted THEN Append(swipes, SwipeRowOf(req)) ELSE swipes
        /\ inflight' = [inflight EXCEPT ![r] =
                [req EXCEPT !.pc = "done", !.swipe_id = swipe_id, !.http = http,
                            !.status = IF http = 200 THEN "success" ELSE "error"]]
        /\ resp' = SwipeResponse(r, http, swipe_id)
        /\ UNCHANGED <<now, users, sessions, songs, playlists, spotifyPlaylists>>

\* the server process dies in the middle of a request: what was committed stays
Crash(r) ==
    /\ Running(r)
    /\ inflight' = [inflight EXCEPT ![r].pc = "crashed"]
    /\ UNCHANGED <<now, users, sessions, songs, swipes, playlists, spotifyPlaylists, resp>>

\* provider track ids of the requests
RaceTracks == {"t1", "t2"}

\* session ids of the requests: the session that is created, and one that never is
RaceSessions == {1, 2}

NextRace ==
    \/ /\ sessions = <<>>
       /\ CreateSwipeSession(Some("u1"), Some(2), None, TRUE)
    \/ \E r \in RequestIds, s \in RaceSessions, t \in RaceTracks :
          /\ Len(swipes) < MaxRaceSwipes
          /\ SwipeRequest(r, s, t, "RIGHT")
    \/ \E r \in RequestIds, t \in RaceTracks : ServeRequest(r, 1, t)
    \/ \E r \in RequestIds : AddSongSelect(r)
    \/ \E r \in RequestIds, ok \in BOOLEAN : AddSongCommit(r, ok)
    \/ \E r \in RequestIds : RecordSwipeSelect(r)
    \/ \E r \in RequestIds, ok \in BOOLEAN : RecordSwipeCommit(r, ok)
    \/ \E r \in RequestIds : Crash(r)

SpecRace == Init /\ [][NextRace]_vars

----------------------------------------------------------------------------
(* GET /callback: the OAuth callback upserts the Users row *)

\* expires_in of a token_info without one, in minutes (3600 seconds)
DefaultLifetime == 60

\* an upsert that rewrites the whole row (REPLACE INTO)
UserAfterCallbackReplacing(uid, profile, token_info) ==
    [display_name |-> profile.display_name,
     email |-> profile.email,
     access_token |-> token_info.access_token,
     refresh_token |-> token_info.refresh_token,
     token_expires_at |-> Some(now + Get(token_info.expires_in, DefaultLifetime)),
     creation_date |-> Some(now),
     last_login |-> Some(now)]

\* INSERT ... ON DUPLICATE KEY UPDATE: creation_date is written on insert only
UserAfterCallback(uid, profile, token_info) ==
    [display_name |-> profile.display_name,
     email |-> profile.email,
     access_token |-> token_info.access_token,
     refresh_token |-> token_info.refresh_token,
     token_expires_at |-> Some(now + Get(token_info.expires_in, DefaultLifetime)),
     creation_date |-> IF UserExists(uid) THEN users[uid].creation_date ELSE Some(now),
     last_login |-> Some(now)]

\* error and code are the query parameters, token_info the token exchange's answer
\* (None when it gives none), profile the provider's current_user (None when the
\* lookup fails)
Callback(uid, error, code, token_info, profile, dbOk) ==
    /\ IF error # None
       THEN /\ resp' = [op |-> "callback", redirect |-> error[1]]
            /\ UNCHANGED users
       ELSE IF code = None
       THEN /\ resp' = [op |-> "callback", redirect |-> "missing_code"]
            /\ UNCHANGED users
       ELSE IF token_info = None
       THEN /\ resp' = [op |-> "callback", redirect |-> "auth_failed"]
            /\ UNCHANGED users
       ELSE IF token_info[1].access_token = None
       THEN /\ resp' = [op |-> "callback", redirect |-> "server_error"]
            /\ UNCHANGED users
       ELSE IF profile = None
       THEN /\ resp' = [op |-> "callback", redirect |-> "spotify_api_error"]
            /\ UNCHANGED users
       ELSE IF ~dbOk
       THEN /\ resp' = [op |-> "callback", redirect |-> "database_error"]
            /\ UNCHANGED users
       ELSE /\ users' = [u \in DOMAIN users \cup {uid} |->
                            IF u = uid
                            THEN UserAfterCallback(uid, profile[1], token_info[1])
                            ELSE users[u]]
            /\ resp' = [op |-> "callback", redirect |-> "success"]
    /\ UNCHANGED <<inflight, now, sessions, songs, swipes, playlists, spotifyPlaylists>>

----------------------------------------------------------------------------
(* get_fresh_spotify_token and Database.update_user_tokens *)

\* the safety margin: timedelta(minutes=5)
RefreshMargin == 5

AuthRequired == "Authentication required. Please sign in again."

\* a validity test whose comparison is turned around
TokenStillValidInverted(user_data) ==
    /\ user_data.token_expires_at # None
    /\ user_data.token_expires_at[1] < now + RefreshMargin

\* a validity test without the margin
TokenStillValidNoMargin(user_data) ==
    /\ user_data.token_expires_at # None
    /\ user_data.token_expires_at[1] > now

\* token_expires_at and token_expires_at > utcnow() + timedelta(minutes=5)
TokenStillValid(user_data) ==
    /\ user_data.token_expires_at # None
    /\ user_data.token_expires_at[1] > now + RefreshMargin

\* the refresh token taken from the provider's answer alone
RefreshTokenToStoreNoDefault(token_info, user_data) == token_info.refresh_token

\* token_info.get('refresh_token', user_data['refresh_token'])
RefreshTokenToStore(token_info, user_data) ==
    IF token_info.refresh_token # None THEN token_info.refresh_token
    ELSE user_data.refresh_token

\* a handler that lets the caught error through
RaisedErrorUnderlying(underlying) == underlying

\* except Exception as e: raise Exception("Authentication required. ...")
RaisedError(underlying) == AuthRequired

\* UPDATE Users SET access_token, refresh_token, token_expires_at
UserAfterRefresh(user_data, token_info) ==
    [user_data EXCEPT
        !.access_token = token_info.access_token,
        !.refresh_token = RefreshTokenToStore(token_info, user_data),
        !.token_expires_at = Some(now + token_info.expires_in[1])]

TokenFailure(uid, underlying, calls) ==
    [op |-> "get_fresh_spotify_token", spotify_id |-> uid, raised |-> TRUE,
     token |-> None, error |-> RaisedError(underlying), printed |-> underlying,
     refresh_calls |-> calls]

\* provider is the answer of refresh_access_token: None when the call raises,
\* else the token_info, whose access_token and expires_in may be missing.
\* The outcome of get_fresh_spotify_token(users[uid]): what it returns or raises,
\* and the Users row afterwards
TokenOutcome(uid, provider, dbOk) ==
    LET user_data == users[uid]
    IN  IF TokenStillValid(user_data)
        THEN [resp |-> [op |-> "get_fresh_spotify_token", spotify_id |-> uid,
                        raised |-> FALSE, token |-> user_data.access_token,
                        error |-> "", printed |-> "", refresh_calls |-> 0],
              user |-> user_data]
        ELSE IF user_data.refresh_token = None
        THEN [resp |-> TokenFailure(uid, "No refresh token available", 0),
              user |-> user_data]
        ELSE IF provider = None
        THEN [resp |-> TokenFailure(uid, "provider error", 1), user |-> user_data]
        ELSE IF provider[1].access_token = None
        THEN [resp |-> TokenFailure(uid, "KeyError: access_token", 1), user |-> user_data]
        ELSE IF provider[1].expires_in = None
        THEN [resp |-> TokenFailure(uid, "KeyError: expires_in", 1), user |-> user_data]
        ELSE IF ~dbOk
        THEN [resp |-> TokenFailure(uid, "database error", 1), user |-> user_data]
        ELSE [resp |-> [op |-> "get_fresh_spotify_token", spotify_id |-> uid,
                        raised |-> FALSE, token |-> provider[1].access_token,
                        error |-> "", printed |-> "", refresh_calls |-> 1],
              user |-> UserAfterRefresh(user_data, provider[1])]

GetFreshSpotifyToken(uid, provider, dbOk) ==
    /\ UserExists(uid)
    /\ resp' = TokenOutcome(uid, provider, dbOk).resp
    /\ users' = [users EXCEPT ![uid] = TokenOutcome(uid, provider, dbOk).user]
    /\ UNCHANGED <<inflight, now, sessions, songs, swipes, playlists, spotifyPlaylists>>

----------------------------------------------------------------------------
(* The token manager: sign-in, passing time, token requests *)

NoUsers == [u \in {} |-> BareUser]

InitToken ==
    /\ now = 0
    /\ users \in {NoUsers, [u \in UserIds |-> BareUser]}
    /\ sessions = <<>>
    /\ songs = <<>>
    /\ swipes = <<>>
    /\ playlists = <<>>
    /\ spotifyPlaylists = <<>>
    /\ inflight = NoRequests
    /\ resp = NoResp

Profile == [display_name |-> "User One", email |-> Some("u1@example.com")]

\* token_info of the code exchange: with or without refresh token and lifetime
CallbackTokenInfos ==
    {[access_token |-> a, refresh_token |-> r, expires_in |-> e] :
        a \in {None, Some("a1")}, r \in {None, Some("r1")}, e \in {None, Some(1), Some(6)}}

\* token_info of a refresh: fields missing or present
RefreshTokenInfos ==
    {[access_token |-> a, refresh_token |-> r, expires_in |-> e] :
        a \in {None, Some("a2")}, r \in {None, Some("r2")}, e \in {None, Some(1), Some(6)}}

NextToken ==
    \/ now < MaxTokenTime /\ Tick
    \/ \E err \in {None, Some("access_denied")}, code \in {None, Some("code")},
          ti \in {None} \cup {Some(t) : t \in CallbackTokenInfos},
          pr \in {None, Some(Profile)}, ok \in BOOLEAN :
          Callback("u1", err, code, ti, pr, ok)
    \/ \E u \in UserIds, pv \in {None} \cup {Some(t) : t \in RefreshTokenInfos},
          ok \in BOOLEAN :
          GetFreshSpotifyToken(u, pv, ok)

SpecToken == InitToken /\ [][NextToken]_vars

----------------------------------------------------------------------------
(* Playlist Publisher: POST /api/create_playlist and                       *)
(* POST /api/add_tracks_to_playlist/<playlist_id>                          *)

\* Database.get_user with the database "served", the query "failed" or
\* "no_connection": the Users row, None for an unknown user or a failed query
GetUser(spotify_id, lookup) ==
    IF lookup = "served" /\ spotify_id \in DOMAIN users THEN Some(users[spotify_id])
    ELSE None

\* without a connection the finally clause of get_user reads conn before it is
\* bound, and the UnboundLocalError leaves get_user
GetUserRaises(lookup) == lookup = "no_connection"

\* the Users table after get_fresh_spotify_token(user)
UsersAfterToken(uid, tokenAnswer, tokenDbOk) ==
    [users EXCEPT ![uid] = TokenOutcome(uid, tokenAnswer, tokenDbOk).user]

\* INSERT INTO Playlists (playlist_id, spotify_id, spotify_playlist_id, name,
\* description, creation_date)
PlaylistRow(spotify_id, spotify_playlist_id, name, description) ==
    [playlist_id |-> Len(playlists) + 1,
     spotify_id |-> spotify_id,
     spotify_playlist_id |-> spotify_playlist_id,
     name |-> name,
     description |-> description,
     creation_date |-> now]

\* the playlist sp.user_playlist_create makes on the provider's side
ProviderPlaylist(spotify_id, name, description, public) ==
    [owner |-> spotify_id, name |-> name, description |-> description,
     public |-> public, tracks |-> <<>>]

\* handlers that catch SpotifyException alone, everything else ending in the
\* outer handler
FailureStatusSpotifyOnly(kind) ==
    CASE kind = "unknown_user" -> 404
      [] kind = "spotify_error" -> 401
      [] OTHER -> 500

\* the status code of an error response: "unknown_user" is the user lookup that
\* finds nothing, "spotify_error" the inner except SpotifyException, "auth_error"
\* the inner except Exception, "server_error" the outer except Exception
FailureStatus(kind) ==
    CASE kind = "unknown_user" -> 404
      [] kind \in {"spotify_error", "auth_error"} -> 401
      [] OTHER -> 500

\* needs_auth of an error response; the outer handler's payload has none
FailureNeedsAuth(kind) ==
    IF kind \in {"unknown_user", "spotify_error", "auth_error"} THEN Some(TRUE) ELSE None

\* a response of the publisher before anything was done: the request it answers
\* (spotify_id, playlist_id, track_uris), the payload (http, status, message,
\* needs_auth, created, added) and what the handler did on the way (lookup: "none"
\* or how get_user went, token_requests, token_failed, calls made on the provider,
\* failed_call: the number of the call that raised, 0 for none)
PublisherResp(opName, spotify_id, name, playlist_id, track_uris) ==
    [op |-> opName, spotify_id |-> spotify_id, name |-> name,
     playlist_id |-> playlist_id, track_uris |-> track_uris,
     http |-> 200, status |-> "success", message |-> "", needs_auth |-> None,
     created |-> None, added |-> None,
     lookup |-> "none", token_requests |-> 0, token_failed |-> FALSE,
     calls |-> <<>>, failed_call |-> 0]

PublisherError(base, kind, message) ==
    [base EXCEPT !.http = FailureStatus(kind), !.status = "error",
                 !.message = message, !.needs_auth = FailureNeedsAuth(kind)]

\* spotify_id and name are the body's fields (None when missing); lookup: how
\* get_user goes; tokenAnswer, tokenDbOk: the refresh endpoint's answer and
\* the token update, should a refresh be made; createAnswer: None when
\* user_playlist_create raises, else the playlist it returns, whose external url
\* may be missing; saveOk: the insert into Playlists is served
CreatePlaylist(spotify_id, name, description, public, lookup, tokenAnswer, tokenDbOk, createAnswer, saveOk) ==
    LET desc == Get(description, "")
        pub == Get(public, TRUE)
        token == TokenOutcome(spotify_id[1], tokenAnswer, tokenDbOk)
        created == Len(spotifyPlaylists) + 1
        base == PublisherResp("create_playlist", spotify_id, name, None, None)
        looked == [base EXCEPT !.lookup = lookup]
        asked == [looked EXCEPT !.token_requests = 1]
        called == [asked EXCEPT !.calls = <<"user_playlist_create">>]
    IN  /\ IF spotify_id = None \/ name = None
           THEN /\ resp' = PublisherError(base, "server_error", "KeyError")
                /\ UNCHANGED <<users, playlists, spotifyPlaylists>>
           ELSE IF GetUserRaises(lookup)
           THEN /\ resp' = PublisherError(looked, "server_error", "UnboundLocalError")
                /\ UNCHANGED <<users, playlists, spotifyPlaylists>>
           ELSE IF GetUser(spotify_id[1], lookup) = None
           THEN /\ resp' = PublisherError(looked, "unknown_user", "User not found")
                /\ UNCHANGED <<users, playlists, spotifyPlaylists>>
           ELSE IF token.resp.raised
           THEN /\ resp' = PublisherError([asked EXCEPT !.token_failed = TRUE],
                                          "auth_error", token.resp.error)
                /\ users' = UsersAfterToken(spotify_id[1], tokenAnswer, tokenDbOk)
                /\ UNCHANGED <<playlists, spotifyPlaylists>>
           ELSE IF createAnswer = None
           THEN /\ resp' = PublisherError([called EXCEPT !.failed_call = 1],
                                          "spotify_error", "Spotify API error")
                /\ users' = UsersAfterToken(spotify_id[1], tokenAnswer, tokenDbOk)
                /\ UNCHANGED <<playlists, spotifyPlaylists>>
           ELSE /\ users' = UsersAfterToken(spotify_id[1], tokenAnswer, tokenDbOk)
                /\ spotifyPlaylists' = Append(spotifyPlaylists,
                        ProviderPlaylist(spotify_id[1], name[1], desc, pub))
                /\ IF ~saveOk
                   THEN /\ resp' = PublisherError(called, "auth_error", "database error")
                        /\ UNCHANGED playlists
                   ELSE /\ playlists' = Append(playlists,
                                PlaylistRow(spotify_id[1], created, name[1], desc))
                        /\ resp' = IF createAnswer[1].external_url = None
                                   THEN PublisherError(called, "auth_error",
                                                       "KeyError: external_urls")
                                   ELSE [called EXCEPT !.created = Some(created)]
        /\ UNCHANGED <<inflight, now, sessions, songs, swipes>>

\* the provider's limit of identifiers per playlist_add_items call
BatchSize == 100

\* a loop that steps one past the batch it took
RECURSIVE BatchesFromSkipping(_, _)
BatchesFromSkipping(track_uris, i) ==
    IF i >= Len(track_uris) THEN <<>>
    ELSE <<SubSeq(track_uris, i + 1, Min(i + BatchSize, Len(track_uris)))>>
         \o BatchesFromSkipping(track_uris, i + BatchSize + 1)

\* for i in range(i, len(track_uris), 100): track_uris[i:i+100]
RECURSIVE BatchesFrom(_, _)
BatchesFrom(track_uris, i) ==
    IF i >= Len(track_uris) THEN <<>>
    ELSE <<SubSeq(track_uris, i + 1, Min(i + BatchSize, Len(track_uris)))>>
         \o BatchesFrom(track_uris, i + BatchSize)

\* the tracks of several batches, one after the other
RECURSIVE Concat(_)
Concat(batches) ==
    IF batches = <<>> THEN <<>> ELSE Head(batches) \o Concat(Tail(batches))

\* an emptiness test that never fires
NoTracksNever(track_uris) == FALSE

\* not track_uris
NoTracks(track_uris) == track_uris = <<>>

\* the call that raises: the failAt-th one, or the first when the provider has no
\* such playlist; 0 when none does
FailingCall(playlist_id, failAt) ==
    IF playlist_id \notin 1..Len(spotifyPlaylists) THEN 1 ELSE failAt

\* a loop whose failure takes back the batches already added
AppliedBatchesRolledBack(batches, failing) ==
    IF failing \in 1..Len(batches) THEN <<>> ELSE batches

\* the batches whose playlist_add_items call returned: those before the call that
\* raised, which ends the loop
AppliedBatches(batches, failing) ==
    IF failing \in 1..Len(batches) THEN SubSeq(batches, 1, failing - 1) ELSE batches

\* track_uris is the body's list (None when missing); lookup: how get_user goes;
\* failAt: the number of the
\* playlist_add_items call the provider rejects, 0 for none
AddTracksToPlaylist(playlist_id, spotify_id, track_uris, lookup, tokenAnswer, tokenDbOk, failAt) ==
    LET token == TokenOutcome(spotify_id[1], tokenAnswer, tokenDbOk)
        batches == BatchesFrom(track_uris[1], 0)
        failing == FailingCall(playlist_id, failAt)
        failed == failing \in 1..Len(batches)
        submitted == IF failed THEN SubSeq(batches, 1, failing) ELSE batches
        applied == AppliedBatches(batches, failing)
        base == PublisherResp("add_tracks_to_playlist", spotify_id, None,
                              Some(playlist_id), track_uris)
        looked == [base EXCEPT !.lookup = lookup]
        asked == [looked EXCEPT !.token_requests = 1]
        called == [asked EXCEPT !.calls = submitted,
                                !.failed_call = IF failed THEN failing ELSE 0]
    IN  /\ IF spotify_id = None \/ track_uris = None
           THEN /\ resp' = PublisherError(base, "server_error", "KeyError")
                /\ UNCHANGED <<users, spotifyPlaylists>>
           ELSE IF NoTracks(track_uris[1])
           THEN /\ resp' = [base EXCEPT !.message = "No tracks to add"]
                /\ UNCHANGED <<users, spotifyPlaylists>>
           ELSE IF GetUserRaises(lookup)
           THEN /\ resp' = PublisherError(looked, "server_error", "UnboundLocalError")
                /\ UNCHANGED <<users, spotifyPlaylists>>
           ELSE IF GetUser(spotify_id[1], lookup) = None
           THEN /\ resp' = PublisherError(looked, "unknown_user", "User not found")
                /\ UNCHANGED <<users, spotifyPlaylists>>
           ELSE IF token.resp.raised
           THEN /\ resp' = PublisherError([asked EXCEPT !.token_failed = TRUE],
                                          "auth_error", token.resp.error)
                /\ users' = UsersAfterToken(spotify_id[1], tokenAnswer, tokenDbOk)
                /\ UNCHANGED spotifyPlaylists
           ELSE /\ users' = UsersAfterToken(spotify_id[1], tokenAnswer, tokenDbOk)
                /\ spotifyPlaylists' =
                      IF playlist_id \in 1..Len(spotifyPlaylists)
                      THEN [spotifyPlaylists EXCEPT ![playlist_id].tracks =
                                @ \o Concat(applied)]
                      ELSE spotifyPlaylists
                /\ resp' = IF failed
                           THEN PublisherError(called, "spotify_error", "Spotify API error")
                           ELSE [called EXCEPT !.added = Some(Len(track_uris[1]))]
        /\ UNCHANGED <<inflight, now, sessions, songs, swipes, playlists>>

----------------------------------------------------------------------------
(* The playlist publisher: playlists created and filled for a signed-in user *)

\* the user's stored tokens: valid for an hour or expired, with or without a
\* refresh token
PublisherUsers ==
    {[BareUser EXCEPT !.access_token = Some("a1"), !.refresh_token = r,
                      !.token_expires_at = Some(e)] :
        r \in {None, Some("r1")}, e \in {0, 60}}

InitPlaylist ==
    /\ now = 0
    /\ users \in {[u \in UserIds |-> row] : row \in PublisherUsers}
    /\ sessions = <<>>
    /\ songs = <<>>
    /\ swipes = <<>>
    /\ playlists = <<>>
    /\ spotifyPlaylists = <<>>
    /\ inflight = NoRequests
    /\ resp = NoResp

RefreshedToken == [access_token |-> Some("a2"), refresh_token |-> None,
                   expires_in |-> Some(60)]

\* what surrounds a request: how the Users query goes, the refresh endpoint
\* raising or issuing a token good for an hour, the token update served or not
PublisherEnvs ==
    {[lookup |-> "served", tokenAnswer |-> Some(RefreshedToken), tokenDbOk |-> TRUE],
     [lookup |-> "failed", tokenAnswer |-> Some(RefreshedToken), tokenDbOk |-> TRUE],
     [lookup |-> "no_connection", tokenAnswer |-> Some(RefreshedToken), tokenDbOk |-> TRUE],
     [lookup |-> "served", tokenAnswer |-> None, tokenDbOk |-> TRUE],
     [lookup |-> "served", tokenAnswer |-> Some(RefreshedToken), tokenDbOk |-> FALSE]}

\* user_playlist_create and the insert after it: the call raises, the insert
\* fails, the answer lacks its url, all is served
CreateOutcomes ==
    {[createAnswer |-> None, saveOk |-> TRUE],
     [createAnswer |-> Some([external_url |-> Some("url")]), saveOk |-> FALSE],
     [createAnswer |-> Some([external_url |-> None]), saveOk |-> TRUE],
     [createAnswer |-> Some([external_url |-> Some("url")]), saveOk |-> TRUE]}

\* lengths of the track lists a client sends
TrackCounts == {0, 1, 100, 120, 201}

\* a list of n distinct track identifiers
Uris(n) == [i \in 1..n |-> i]

\* the playlist_add_items call the provider rejects: none, or one of the three
\* the longest list needs
FailAts == 0..3

TrackLists == {None} \cup {Some(Uris(n)) : n \in TrackCounts}

NextPlaylist ==
    \/ \E u \in SpotifyIdInputs, name \in {None, Some("mix")}, d \in {None, Some("liked")},
          e \in PublisherEnvs, c \in CreateOutcomes :
          /\ Len(spotifyPlaylists) < MaxPlaylists
          /\ CreatePlaylist(u, name, d, None, e.lookup, e.tokenAnswer, e.tokenDbOk,
                            c.createAnswer, c.saveOk)
    \/ \E p \in 1..MaxPlaylists, u \in SpotifyIdInputs, t \in TrackLists,
          e \in PublisherEnvs, f \in FailAts :
          /\ p \in 1..Len(spotifyPlaylists) => spotifyPlaylists[p].tracks = <<>>
          /\ AddTracksToPlaylist(p, u, t, e.lookup, e.tokenAnswer, e.tokenDbOk, f)

SpecPlaylist == InitPlaylist /\ [][NextPlaylist]_vars

----------------------------------------------------------------------------
(* Properties of the token manager *)

ProviderAnswers == {None} \cup {Some(t) : t \in RefreshTokenInfos}

\* the stored expiry lies more than 5 minutes after the current time
ExpiresBeyondMargin(u) ==
    /\ users[u].token_expires_at # None
    /\ users[u].token_expires_at[1] > now + 5

\* C7: with token_expires_at more than 5 minutes ahead, get_fresh_spotify_token
\* returns the stored access token, calls no refresh endpoint and leaves Users as
\* it is.
C7_ValidTokenReturned ==
    [][\A u \in UserIds, pv \in ProviderAnswers, ok \in BOOLEAN :
          (/\ UserExists(u)
           /\ ExpiresBeyondMargin(u)
           /\ GetFreshSpotifyToken(u, pv, ok)) =>
              /\ ~resp'.raised
              /\ resp'.token = users[u].access_token
              /\ resp'.refresh_calls = 0
              /\ users' = users]_vars

\* a token request served from the stored token, 6 minutes before its expiry
C7_Witness ==
    /\ resp.op = "get_fresh_spotify_token"
    /\ ~resp.raised
    /\ resp.refresh_calls = 0
    /\ resp.token = Some("a1")
    /\ users[resp.spotify_id].token_expires_at = Some(now + 6)

\* C8: with the stored token not valid beyond the margin (no expiry, expiry past,
\* or at most 5 minutes ahead) and no refresh token stored, get_fresh_spotify_token
\* raises the Authentication-Required error, calls no refresh endpoint and leaves
\* the stored tokens as they are.
C8_NoRefreshToken ==
    [][\A u \in UserIds, pv \in ProviderAnswers, ok \in BOOLEAN :
          (/\ UserExists(u)
           /\ ~ExpiresBeyondMargin(u)
           /\ users[u].refresh_token = None
           /\ GetFreshSpotifyToken(u, pv, ok)) =>
              /\ resp'.raised
              /\ resp'.error = "Authentication required. Please sign in again."
              /\ resp'.token = None
              /\ resp'.refresh_calls = 0
              /\ users' = users]_vars

\* the error raised for a token exactly 5 minutes before its expiry
C8_Witness ==
    /\ resp.op = "get_fresh_spotify_token"
    /\ resp.raised
    /\ resp.printed = "No refresh token available"
    /\ users[resp.spotify_id].token_expires_at = Some(now + 5)
    /\ users[resp.spotify_id].access_token # None

\* C9: when a refresh is needed, a refresh token is stored and the provider answers
\* with an access token and a lifetime (the database serving the update), the Users
\* row gets the new access token, the provider's refresh token if it issued one and
\* the stored one otherwise, and token_expires_at = now + lifetime; the call returns
\* the new access token, which is the one stored afterwards.
C9_RefreshPersisted ==
    [][\A u \in UserIds, ti \in RefreshTokenInfos :
          (/\ UserExists(u)
           /\ ~ExpiresBeyondMargin(u)
           /\ users[u].refresh_token # None
           /\ ti.access_token # None
           /\ ti.expires_in # None
           /\ GetFreshSpotifyToken(u, Some(ti), TRUE)) =>
              /\ ~resp'.raised
              /\ resp'.refresh_calls = 1
              /\ resp'.token = ti.access_token
              /\ resp'.token = users'[u].access_token
              /\ users'[u].refresh_token =
                    (IF ti.refresh_token # None THEN ti.refresh_token
                     ELSE users[u].refresh_token)
              /\ users'[u].token_expires_at = Some(now + ti.expires_in[1])
              /\ users'[u].display_name = users[u].display_name
              /\ users'[u].email = users[u].email
              /\ users'[u].creation_date = users[u].creation_date
              /\ users'[u].last_login = users[u].last_login]_vars

\* a refresh that kept the stored refresh token, the provider having issued none
C9_Witness ==
    /\ resp.op = "get_fresh_spotify_token"
    /\ ~resp.raised
    /\ resp.refresh_calls = 1
    /\ resp.token = Some("a2")
    /\ users[resp.spotify_id].access_token = Some("a2")
    /\ users[resp.spotify_id].refresh_token = Some("r1")

\* C10: when a refresh is attempted and the provider's call raises, its answer
\* lacks the access token or the lifetime, or the update of Users fails,
\* get_fresh_spotify_token raises the one Authentication-Required error, never the
\* error underneath; when the provider's call raises, Users is left as it is.
C10_RefreshFailureGeneric ==
    [][\A u \in UserIds, pv \in ProviderAnswers, ok \in BOOLEAN :
          (/\ UserExists(u)
           /\ ~ExpiresBeyondMargin(u)
           /\ users[u].refresh_token # None
           /\ \/ pv = None
              \/ pv # None /\ pv[1].access_token = None
              \/ pv # None /\ pv[1].expires_in = None
              \/ ~ok
           /\ GetFreshSpotifyToken(u, pv, ok)) =>
              /\ resp'.raised
              /\ resp'.token = None
              /\ resp'.error = "Authentication required. Please sign in again."
              /\ resp'.refresh_calls = 1
              /\ pv = None => users' = users]_vars

\* a refresh that failed at the provider
C10_Witness ==
    /\ resp.op = "get_fresh_spotify_token"
    /\ resp.raised
    /\ resp.refresh_calls = 1
    /\ resp.printed = "provider error"
    /\ resp.error # resp.printed

\* a refresh whose update of Users failed
C10_WitnessDatabase ==
    /\ resp.op = "get_fresh_spotify_token"
    /\ resp.raised
    /\ resp.printed = "database error"

----------------------------------------------------------------------------
(* Properties of the session store *)

\* the swipes of a session, and its RIGHT swipes, counted on the table itself
RowsOfSession(s) == {i \in 1..Len(swipes) : swipes[i].session_id = s}

RightRowsOfSession(s) == {i \in RowsOfSession(s) : swipes[i].direction = "RIGHT"}

\* C1: when record_swipe calls run one after another, the n-th swipe recorded on a
\* session has swipe_order n (1 for the first, previous maximum + 1 after it),
\* whatever was recorded on other sessions in between.
C1_OrderIsRankInSession ==
    \A i \in 1..Len(swipes) :
        swipes[i].swipe_order =
            Cardinality({j \in 1..i : swipes[j].session_id = swipes[i].session_id})

\* two sessions swiped in turn: s, the other one, s again, then numbered 1, 1, 2
C1_Witness ==
    \E i, j, k \in 1..Len(swipes) :
        /\ i < j /\ j < k
        /\ swipes[i].session_id = swipes[k].session_id
        /\ swipes[j].session_id # swipes[i].session_id
        /\ swipes[k].swipe_order = 2

\* C2: a complete_session call that follows a successful complete_session of the
\* same session succeeds with the same stats (the database serving it), and changes
\* nothing: the status stays COMPLETED and completion_date keeps its first value.
C2_CompleteTwice ==
    [][\A s \in SessionIdInputs :
          (resp.op = "complete_session" /\ resp.session_id = s /\ resp.success) =>
              /\ CompleteSession(s, TRUE) =>
                    /\ resp'.success
                    /\ resp'.stats = resp.stats
                    /\ resp'.printed = "is already completed"
              /\ (\E ok \in BOOLEAN : CompleteSession(s, ok)) =>
                    /\ sessions[s].session_status = "COMPLETED"
                    /\ sessions'[s].session_status = "COMPLETED"
                    /\ sessions'[s].completion_date = sessions[s].completion_date
                    /\ sessions' = sessions]_vars

\* a second completion, later than the first, of a session that has swipes
C2_Witness ==
    /\ resp.op = "complete_session"
    /\ resp.success
    /\ resp.printed = "is already completed"
    /\ resp.stats[1].total_swipes > 0
    /\ sessions[resp.session_id].completion_date # Some(now)

\* C4: completion is monotonic.  No step of any operation changes the status of a
\* COMPLETED session or its completion_date, removes a session, or changes a
\* status in another way than from ACTIVE to COMPLETED.
C4_CompletionMonotonic ==
    [][/\ Len(sessions') >= Len(sessions)
       /\ \A s \in 1..Len(sessions) :
            /\ sessions[s].session_status = "COMPLETED" =>
                  /\ sessions'[s].session_status = "COMPLETED"
                  /\ sessions'[s].completion_date = sessions[s].completion_date
            /\ sessions'[s].session_status # sessions[s].session_status =>
                  /\ sessions[s].session_status = "ACTIVE"
                  /\ sessions'[s].session_status = "COMPLETED"]_vars

\* a session completed earlier whose completion was asked for again later
C4_Witness ==
    /\ resp.op = "complete_session"
    /\ resp.success
    /\ resp.printed = "is already completed"
    /\ sessions[resp.session_id].session_status = "COMPLETED"
    /\ sessions[resp.session_id].completion_date = Some(0)
    /\ now > 0

\* C5: for an existing session with a target above 0, get_session_progress (the
\* database serving it) returns liked_count = the number of RIGHT swipes of the
\* session, progress_percentage = liked_count / target * 100 without a cap (above
\* 100 when the likes exceed the target), and is_complete exactly when
\* liked_count >= target.
C5_ProgressPercentage ==
    [][\A s \in SessionIdInputs :
          (/\ SessionExists(s)
           /\ sessions[s].target_playlist_length > 0
           /\ GetSessionProgress(s, TRUE)) =>
              LET liked == Cardinality(RightRowsOfSession(s))
                  target == sessions[s].target_playlist_length
                  data == resp'.data
              IN  /\ data # None
                  /\ data[1].liked_count = liked
                  /\ data[1].target_playlist_length = target
                  /\ data[1].progress_percentage.den > 0
                  /\ data[1].progress_percentage.num * target
                        = liked * 100 * data[1].progress_percentage.den
                  /\ liked > target =>
                        data[1].progress_percentage.num
                            > 100 * data[1].progress_percentage.den
                  /\ data[1].is_complete <=> liked >= target]_vars

\* a progress report above 100 percent
C5_Witness ==
    /\ resp.op = "get_session_progress"
    /\ resp.data # None
    /\ resp.data[1].progress_percentage.num > 100 * resp.data[1].progress_percentage.den
    /\ resp.data[1].is_complete

\* C6: on a session created with target 2: with one RIGHT swipe recorded, progress
\* reports liked_count 1 and is_complete false; with two, is_complete true;
\* recording a swipe never changes the session row (reaching the target leaves the
\* status ACTIVE); complete_session then sets COMPLETED and returns liked_count 2.
C6_LifecycleScenario ==
    [][\A s \in SessionIdInputs :
          (SessionExists(s) /\ sessions[s].target_playlist_length = 2) =>
              LET liked == Cardinality(RightRowsOfSession(s))
              IN  /\ (liked = 1 /\ GetSessionProgress(s, TRUE)) =>
                        /\ resp'.data # None
                        /\ resp'.data[1].liked_count = 1
                        /\ ~resp'.data[1].is_complete
                  /\ (liked = 2 /\ GetSessionProgress(s, TRUE)) =>
                        /\ resp'.data # None
                        /\ resp'.data[1].liked_count = 2
                        /\ resp'.data[1].is_complete
                  /\ (resp'.op = "record_swipe" /\ resp'.session_id = s) =>
                        sessions'[s] = sessions[s]
                  /\ (liked = 2 /\ CompleteSession(s, TRUE)) =>
                        /\ sessions'[s].session_status = "COMPLETED"
                        /\ resp'.success
                        /\ resp'.stats # None
                        /\ resp'.stats[1].liked_count = 2]_vars

\* the end of the scenario: completed with two likes on a target of 2
C6_Witness ==
    /\ resp.op = "complete_session"
    /\ resp.success
    /\ resp.printed = "marked as completed"
    /\ resp.stats[1].liked_count = 2
    /\ resp.stats[1].target_playlist_length = 2
    /\ sessions[resp.session_id].session_status = "COMPLETED"

\* the target reached while the session is still ACTIVE
C6_WitnessActive ==
    /\ resp.op = "get_session_progress"
    /\ resp.data # None
    /\ resp.data[1].is_complete
    /\ resp.data[1].target_playlist_length = 2
    /\ sessions[resp.session_id].session_status = "ACTIVE"

----------------------------------------------------------------------------
(* Properties of the Songs table *)

\* C3: add_song_to_session called again with a provider track id it was called
\* with before returns the song_id it returned then: a call the database serves
\* returns the id of the one Songs row of that track id, a call for a track id
\* that has a row inserts nothing, and no call changes an existing row.
C3_AddSongIdempotent ==
    /\ [](\A i, j \in 1..Len(songs) :
             songs[i].spotify_id = songs[j].spotify_id => i = j)
    /\ []((resp.op = "add_song_to_session" /\ resp.song_id # None) =>
             /\ resp.song_id[1] \in 1..Len(songs)
             /\ songs[resp.song_id[1]].spotify_id = resp.spotify_id
             /\ songs[resp.song_id[1]].song_id = resp.song_id[1])
    /\ [][/\ Len(songs') >= Len(songs)
           /\ \A i \in 1..Len(songs) : songs'[i] = songs[i]
           /\ \A t \in TrackIds :
                (FindSong(songs, t) # None
                   /\ \E s \in 1..2, d \in TrackPayloads : AddSongToSession(s, t, d, TRUE))
                => (songs' = songs /\ resp'.song_id = FindSong(songs, t))]_vars

\* a second call for the first track, with the table holding another track by then
C3_Witness ==
    /\ resp.op = "add_song_to_session"
    /\ resp.song_id = Some(1)
    /\ Len(songs) >= 2
    /\ resp.spotify_id = songs[1].spotify_id

----------------------------------------------------------------------------
(* Properties of the playlist publisher *)

\* the response of an add_tracks_to_playlist request that got its token and whose
\* provider calls all went through
AddedWithoutFailure ==
    /\ resp.op = "add_tracks_to_playlist"
    /\ resp.track_uris # None
    /\ resp.track_uris[1] # <<>>
    /\ resp.token_requests = 1
    /\ ~resp.token_failed
    /\ resp.failed_call = 0

\* C11: for a non-empty list of n track identifiers and no provider failure,
\* add_tracks_to_playlist makes ceil(n/100) provider calls, each with at most 100
\* identifiers and each but the last with exactly 100, the batches in call order
\* make up the input list, and the response reports added = n; 120 identifiers go
\* out as 100 + 20.
C11_BatchesOfHundred ==
    AddedWithoutFailure =>
        LET uris == resp.track_uris[1]
            n == Len(uris)
            calls == resp.calls
        IN  /\ Len(calls) * 100 >= n
            /\ (Len(calls) - 1) * 100 < n
            /\ \A k \in 1..Len(calls) : Len(calls[k]) \in 1..100
            /\ \A k \in 1..(Len(calls) - 1) : Len(calls[k]) = 100
            /\ \A i \in 1..n :
                  /\ ((i - 1) \div 100) + 1 \in 1..Len(calls)
                  /\ ((i - 1) % 100) + 1 \in 1..Len(calls[((i - 1) \div 100) + 1])
                  /\ calls[((i - 1) \div 100) + 1][((i - 1) % 100) + 1] = uris[i]
            /\ Len(calls[Len(calls)]) = n - (Len(calls) - 1) * 100
            /\ resp.http = 200
            /\ resp.status = "success"
            /\ resp.added = Some(n)
            /\ n = 120 => (Len(calls) = 2 /\ Len(calls[1]) = 100 /\ Len(calls[2]) = 20)

\* 120 identifiers added in two calls
C11_Witness ==
    /\ AddedWithoutFailure
    /\ Len(resp.track_uris[1]) = 120
    /\ Len(resp.calls) = 2
    /\ resp.added = Some(120)
    /\ spotifyPlaylists[resp.playlist_id[1]].tracks = resp.track_uris[1]

\* 201 identifiers added in three calls, the last one of a single identifier
C11_WitnessThreeCalls ==
    /\ AddedWithoutFailure
    /\ Len(resp.calls) = 3
    /\ Len(resp.calls[3]) = 1

\* C12: add_tracks_to_playlist with an empty track list answers success and does
\* nothing else: no user lookup, no token request, no write to Users, no provider
\* call, no change to any playlist.
C12_EmptyListNoOp ==
    [][(/\ resp'.op = "add_tracks_to_playlist"
        /\ resp'.spotify_id # None
        /\ resp'.track_uris = Some(<<>>)) =>
           /\ resp'.http = 200
           /\ resp'.status = "success"
           /\ resp'.lookup = "none"
           /\ resp'.token_requests = 0
           /\ resp'.calls = <<>>
           /\ users' = users
           /\ playlists' = playlists
           /\ spotifyPlaylists' = spotifyPlaylists]_vars

\* an empty list sent for a user whose stored token has expired, so that a
\* request that went on would have refreshed it
C12_Witness ==
    /\ resp.op = "add_tracks_to_playlist"
    /\ resp.track_uris = Some(<<>>)
    /\ resp.spotify_id = Some("u1")
    /\ resp.status = "success"
    /\ users["u1"].token_expires_at = Some(0)
    /\ users["u1"].refresh_token # None

\* C13: once user_playlist_create has made a playlist on the provider, a Playlists
\* row with that provider playlist id, the owner, the name and the description
\* exists, in every later state whatever add_tracks_to_playlist does; a success
\* response of create_playlist names a playlist that has its row.
C13_LocalRecordOnceCreated ==
    /\ \A p \in 1..Len(spotifyPlaylists) :
          \E i \in 1..Len(playlists) :
              /\ playlists[i].spotify_playlist_id = p
              /\ playlists[i].spotify_id = spotifyPlaylists[p].owner
              /\ playlists[i].name = spotifyPlaylists[p].name
              /\ playlists[i].description = spotifyPlaylists[p].description
    /\ (resp.op = "create_playlist" /\ resp.status = "success") =>
          /\ resp.created # None
          /\ \E i \in 1..Len(playlists) :
                playlists[i].spotify_playlist_id = resp.created[1]

\* a request of the publisher whose body has the fields the handler reads
WellFormed ==
    /\ resp.op \in {"create_playlist", "add_tracks_to_playlist"}
    /\ resp.spotify_id # None
    /\ resp.op = "create_playlist" => resp.name # None
    /\ resp.op = "add_tracks_to_playlist" => resp.track_uris # None

AuthFailure ==
    /\ resp.http = 401
    /\ resp.status = "error"
    /\ resp.needs_auth = Some(TRUE)

\* C14 as stated: in create_playlist and add_tracks_to_playlist, for an existing
\* user any failure of the token acquisition or of a provider call gives 401 with
\* status "error" and needs_auth = true; an unknown user gives 404 with
\* needs_auth = true and no provider call.
C14_FailuresAsStated ==
    WellFormed =>
        /\ (/\ resp.spotify_id[1] \in DOMAIN users
            /\ (resp.token_failed \/ resp.failed_call > 0)) => AuthFailure
        /\ resp.spotify_id[1] \notin DOMAIN users =>
              /\ resp.http = 404
              /\ resp.needs_auth = Some(TRUE)
              /\ resp.calls = <<>>

\* C14 amended: as stated for create_playlist, and for add_tracks_to_playlist with
\* a non-empty track list, when get_user gets its connection: an existing user's
\* failed token acquisition or provider call gives 401, status "error",
\* needs_auth = true; an unknown user gives 404, needs_auth = true and no provider
\* call.  An empty track list is answered with success before any lookup, and
\* without a database connection the answer is 500 without needs_auth.
C14_FailuresNeedAuth ==
    WellFormed =>
        /\ (/\ resp.spotify_id[1] \in DOMAIN users
            /\ (resp.token_failed \/ resp.failed_call > 0)) => AuthFailure
        /\ (/\ resp.spotify_id[1] \notin DOMAIN users
            /\ resp.lookup \in {"served", "failed"}) =>
              /\ resp.http = 404
              /\ resp.status = "error"
              /\ resp.needs_auth = Some(TRUE)
              /\ resp.token_requests = 0
              /\ resp.calls = <<>>
        /\ (/\ resp.op = "add_tracks_to_playlist"
            /\ resp.track_uris = Some(<<>>)) =>
              /\ resp.http = 200
              /\ resp.lookup = "none"
        /\ resp.lookup = "no_connection" =>
              /\ resp.http = 500
              /\ resp.needs_auth = None

\* a token acquisition that failed for a known user, answered 401
C14_Witness ==
    /\ WellFormed
    /\ resp.spotify_id[1] \in DOMAIN users
    /\ resp.token_failed
    /\ AuthFailure

\* a provider call that failed after a first batch was added
C14_WitnessProvider ==
    /\ WellFormed
    /\ resp.op = "add_tracks_to_playlist"
    /\ resp.failed_call = 2
    /\ AuthFailure

\* an unknown user answered 404
C14_WitnessUnknownUser ==
    /\ WellFormed
    /\ resp.spotify_id[1] \notin DOMAIN users
    /\ resp.http = 404

----------------------------------------------------------------------------
(* Properties of session creation, lookup and the Swipes table *)

C18_WitnessDefault ==
    /\ resp.op = "create_swipe_session"
    /\ resp.http = 200
    /\ sessions[resp.session_id[1]].target_playlist_length = 20

\* C19: a request that names a session id no session has is answered 404, by
\* GET /api/session_progress and by POST /api/complete_session (the lookup of the
\* session served by the database).
C19_UnknownSessionNotFound ==
    /\ (resp.op = "get_session_progress" /\ ~SessionExists(resp.session_id)) =>
          resp.http = 404
    /\ (/\ resp.op = "complete_session"
        /\ ~SessionExists(resp.session_id)
        /\ resp.error = "Session not found") => resp.http = 404

\* C20: Swipes is append-only.  No step of any operation removes or changes a
\* row (session id, song id, direction, order and timestamp stay), a record_swipe
\* call that succeeds appends exactly one row, and nothing else appends (the
\* passing of time leaves the last answer standing and the table alone).
C20_SwipesAppendOnly ==
    [][/\ Len(swipes') >= Len(swipes)
       /\ \A i \in 1..Len(swipes) : swipes'[i] = swipes[i]
       /\ (now' = now /\ resp'.op = "record_swipe" /\ ~resp'.raised) =>
             /\ Len(swipes') = Len(swipes) + 1
             /\ resp'.swipe_id = Some(Len(swipes) + 1)
       /\ Len(swipes') # Len(swipes) =>
             (resp'.op = "record_swipe" /\ ~resp'.raised)]_vars

\* a second swipe of the same song, later than the first, the first still as written
C20_Witness ==
    /\ resp.op = "record_swipe"
    /\ ~resp.raised
    /\ Len(swipes) = 2
    /\ swipes[1].song_id = swipes[2].song_id
    /\ swipes[1].session_id = swipes[2].session_id
    /\ swipes[1].direction # swipes[2].direction
    /\ swipes[1].swipe_timestamp < swipes[2].swipe_timestamp

----------------------------------------------------------------------------
(* Properties of the catalog fetcher *)

\* the seen-set the handler filtered with: empty without a session and when the
\* seen-songs query failed
SeenByHandler ==
    IF resp.session_id # None /\ resp.seen_ok
    THEN {songs[swipes[i].song_id].spotify_id :
             i \in {j \in 1..Len(swipes) : swipes[j].session_id = resp.session_id[1]}}
    ELSE {}

\* a search answer holds a track with an id, a name and artists that the handler
\* has not seen
Contributes(answer) ==
    /\ answer # None
    /\ \E k \in 1..Len(answer[1]) :
          /\ answer[1][k].id # None
          /\ answer[1][k].name # None
          /\ answer[1][k].artists # None
          /\ answer[1][k].id[1] \notin SeenByHandler

GenresContribute == \E g \in 1..Len(resp.genres) : Contributes(resp.genres[g])

\* C15: a successful get_song response holds at most min(limit, 50) tracks (none
\* when the limit is not positive), no two with the same provider track id, each
\* with an id, a name and an artist, and none whose id is among the tracks already
\* swiped in the session named.
C15_FreshDistinctWithinLimit ==
    (resp.op = "get_song" /\ resp.http = 200) =>
        /\ Len(resp.tracks) <= (IF resp.limit < 0 THEN 0
                                ELSE IF resp.limit < 50 THEN resp.limit ELSE 50)
        /\ \A a, b \in 1..Len(resp.tracks) :
              a # b => resp.tracks[a].spotify_id # resp.tracks[b].spotify_id
        /\ \A a \in 1..Len(resp.tracks) :
              /\ resp.tracks[a].spotify_id \in TrackIds
              /\ resp.tracks[a].name \in {"n1", "n2"}
              /\ resp.tracks[a].artist \in {"a1", "a2"}
        /\ resp.session_id # None =>
              \A a \in 1..Len(resp.tracks), i \in 1..Len(swipes) :
                  swipes[i].session_id = resp.session_id[1] =>
                      songs[swipes[i].song_id].spotify_id # resp.tracks[a].spotify_id

\* C16: with the provider client set up, the OR-combined search is issued exactly
\* when no genre search contributed a valid track the handler had not seen, the
\* answer is 400 exactly when neither the genre searches nor the fallback
\* contributed one, and 200 whenever either did.
C16_FallbackAndBadRequest ==
    (resp.op = "get_song" /\ resp.client_ok) =>
        /\ resp.fallback <=> ~GenresContribute
        /\ resp.http = 400 <=> (~GenresContribute /\ ~Contributes(resp.fallback_answer))
        /\ (GenresContribute \/ Contributes(resp.fallback_answer)) => resp.http = 200
        /\ resp.http \in {200, 400}

\* the first genre search raised and found nothing, the fallback found the tracks
C16_Witness ==
    /\ resp.op = "get_song"
    /\ resp.genres = <<None>>
    /\ resp.fallback
    /\ resp.http = 200
    /\ Len(resp.tracks) = 2

\* genre searches and fallback both without a valid track: 400
C16_WitnessBadRequest ==
    /\ resp.op = "get_song"
    /\ resp.client_ok
    /\ resp.genres = <<Some(<<>>)>>
    /\ resp.fallback_answer = None
    /\ resp.fallback
    /\ resp.http = 400

\* a later genre search contributes after an earlier one raised: no fallback
C16_WitnessNoFallback ==
    /\ resp.op = "get_song"
    /\ resp.genres[1] = None
    /\ Len(resp.genres) = 2
    /\ ~resp.fallback
    /\ resp.http = 200

\* the ids of the tracks the contributing step found that have a named artist
NamedContributed ==
    LET answers == IF GenresContribute THEN resp.genres ELSE <<resp.fallback_answer>>
    IN  {t \in TrackIds \ SeenByHandler :
            \E g \in 1..Len(answers) :
                /\ answers[g] # None
                /\ \E k \in 1..Len(answers[g][1]) :
                      /\ answers[g][1][k].id = Some(t)
                      /\ answers[g][1][k].name # None
                      /\ answers[g][1][k].artists # None
                      /\ answers[g][1][k].artists[1] # None}

\* C17: whatever the preview lookups do, a get_song request that found tracks is
\* answered 200; when the limit covers every track found, each found track with a
\* named artist is in the response; and a track's previewUrl is null exactly when
\* its lookup raised, found no data in either search, or found an entry without a
\* preview.
C17_PreviewNeverAborts ==
    (resp.op = "get_song" /\ resp.client_ok /\ resp.http # 400) =>
        /\ resp.http = 200
        /\ resp.limit >= 3 =>
              {resp.tracks[a].spotify_id : a \in 1..Len(resp.tracks)} = NamedContributed
        /\ \A a \in 1..Len(resp.tracks) :
              LET lookup == resp.previews[resp.tracks[a].spotify_id]
                  found == \/ lookup.exact = "preview"
                           \/ (lookup.exact = "no_data" /\ lookup.general = "preview")
              IN  /\ found => resp.tracks[a].previewUrl = Some("preview")
                  /\ ~found => resp.tracks[a].previewUrl = None

\* both lookups raise: both tracks are returned, each with a null previewUrl
C17_Witness ==
    /\ resp.op = "get_song"
    /\ resp.http = 200
    /\ Len(resp.tracks) = 2
    /\ \A a \in 1..2 :
          /\ resp.previews[resp.tracks[a].spotify_id].exact = "raises"
          /\ resp.tracks[a].previewUrl = None

\* one track with a preview from the general search, one with no match at all
C17_WitnessMixed ==
    /\ resp.op = "get_song"
    /\ resp.http = 200
    /\ \E a, b \in 1..Len(resp.tracks) :
          /\ resp.tracks[a].previewUrl = Some("preview")
          /\ resp.previews[resp.tracks[a].spotify_id].exact = "no_data"
          /\ resp.tracks[b].previewUrl = None
          /\ resp.previews[resp.tracks[b].spotify_id].general = "no_data"

----------------------------------------------------------------------------
(* Properties of sign-in, of swipes on completed sessions and of a zero target *)

C29_SwipeIgnoresStatus ==
    [][\A s \in SessionIdInputs, g \in 1..(Len(songs) + 1), d \in Directions,
          ok \in BOOLEAN :
          RecordSwipe(s, g, d, ok) =>
              /\ sessions' = sessions
              /\ ~resp'.raised <=> (ok /\ s \in 1..Len(sessions) /\ g \in 1..Len(songs))
              /\ ~resp'.raised =>
                    /\ Cardinality({i \in 1..Len(swipes') : swipes'[i].session_id = s}) =
                          Cardinality({i \in 1..Len(swipes) : swipes[i].session_id = s}) + 1
                    /\ Cardinality({i \in 1..Len(swipes') :
                                       /\ swipes'[i].session_id = s
                                       /\ swipes'[i].direction = "RIGHT"}) =
                          Cardinality({i \in 1..Len(swipes) :
                                          /\ swipes[i].session_id = s
                                          /\ swipes[i].direction = "RIGHT"})
                              + (IF d = "RIGHT" THEN 1 ELSE 0)]_vars

\* a swipe recorded after the session was completed
C29_Witness ==
    /\ resp.op = "record_swipe"
    /\ ~resp.raised
    /\ sessions[resp.session_id].session_status = "COMPLETED"
    /\ sessions[resp.session_id].completion_date = Some(0)
    /\ swipes[resp.swipe_id[1]].swipe_timestamp > 0

\* the stats of a completed session, asked again, count a swipe recorded after
\* the completion
C29_WitnessStatsGrow ==
    /\ resp.op = "complete_session"
    /\ resp.printed = "is already completed"
    /\ resp.stats[1].total_swipes = 1
    /\ sessions[resp.session_id].completion_date = Some(0)
    /\ swipes[1].swipe_timestamp > 0

\* C30: for an existing session whose target is 0, GET /api/session_progress
\* answers 404 "Session not found" without progress data.
C30_ZeroTargetNotFound ==
    (/\ resp.op = "get_session_progress"
     /\ resp.session_id \in 1..Len(sessions)
     /\ sessions[resp.session_id].target_playlist_length = 0) =>
        /\ resp.http = 404
        /\ resp.message = "Session not found"
        /\ resp.data = None

\* the session exists with target 0 and its progress request is answered 404
C30_Witness ==
    /\ resp.op = "get_session_progress"
    /\ resp.session_id \in 1..Len(sessions)
    /\ sessions[resp.session_id].target_playlist_length = 0
    /\ sessions[resp.session_id].session_status = "ACTIVE"
    /\ resp.http = 404

----------------------------------------------------------------------------
(* Properties of a failing batch *)

\* C23: when the k-th playlist_add_items call of add_tracks_to_playlist raises,
\* the tracks of batches 1..k-1 are on the provider's playlist, exactly k calls
\* were made (none after the failing one), and the answer is 401 with status
\* "error" and needs_auth = true, without a count of added tracks.
C23_PartialBatchesStay ==
    (resp.op = "add_tracks_to_playlist" /\ resp.failed_call > 0) =>
        LET k == resp.failed_call
            uris == resp.track_uris[1]
            p == resp.playlist_id[1]
        IN  /\ Len(resp.calls) = k
            /\ \A j \in 1..k :
                  resp.calls[j] = SubSeq(uris, (j - 1) * 100 + 1,
                                         IF j * 100 < Len(uris) THEN j * 100 ELSE Len(uris))
            /\ p \in 1..Len(spotifyPlaylists) =>
                  spotifyPlaylists[p].tracks = SubSeq(uris, 1, (k - 1) * 100)
            /\ resp.http = 401
            /\ resp.status = "error"
            /\ resp.needs_auth = Some(TRUE)
            /\ resp.added = None

\* the second of three batches fails: the first hundred tracks stay
C23_Witness ==
    /\ resp.op = "add_tracks_to_playlist"
    /\ resp.failed_call = 2
    /\ Len(resp.track_uris[1]) = 201
    /\ Len(spotifyPlaylists[resp.playlist_id[1]].tracks) = 100
    /\ resp.http = 401

----------------------------------------------------------------------------
(* Properties of connection handling *)

\* C24: complete_session, get_session_progress and the create_swipe_session
\* endpoint have released the connection they opened when they return, on every
\* path: no finished request leaves its connection open.
C24_ConnectionsReleased ==
    resp.op \in {"complete_session", "get_session_progress", "create_swipe_session"} =>
        resp.connection # "open"

----------------------------------------------------------------------------
(* Properties of requests that run side by side *)

\* C21: there is at most one Songs row per provider track id in every reachable
\* state, also when two add_song_to_session calls for a track id without a row
\* both run their SELECT before either INSERT.
C21_OneSongPerTrack ==
    \A i, j \in 1..Len(songs) : songs[i].spotify_id = songs[j].spotify_id => i = j

\* both requests found no row for the same track; one inserted it, the other's
\* INSERT failed on the key
C21_Witness ==
    \E p, q \in RequestIds :
        /\ p # q
        /\ inflight[p].spotify_id = inflight[q].spotify_id
        /\ inflight[p].existing_song = None
        /\ inflight[q].existing_song = None
        /\ inflight[p].song_id # None
        /\ songs[inflight[p].song_id[1]].spotify_id = inflight[p].spotify_id
        /\ inflight[q].pc = "done"
        /\ inflight[q].song_error = "duplicate key"

\* the rows a finished swipe request wrote
Written(r) ==
    /\ inflight[r].kind = "swipe"
    /\ inflight[r].pc = "done"
    /\ inflight[r].swipe_id # None

\* C22: a swipe is written with the order its request read, one more than the
\* highest order among the session's rows committed at the time of the read; two
\* requests on one session whose reads saw the same rows (each read before the
\* other's insert) write the same order value.
C22_SameReadSameOrder ==
    /\ \A r \in RequestIds :
          Written(r) =>
              /\ swipes[inflight[r].swipe_id[1]].swipe_order = inflight[r].next_order
              /\ \A i \in inflight[r].seen :
                    swipes[i].swipe_order < inflight[r].next_order
              /\ inflight[r].next_order = 1
                    \/ \E i \in inflight[r].seen :
                          swipes[i].swipe_order = inflight[r].next_order - 1
    /\ \A p, q \in RequestIds :
          (/\ Written(p) /\ Written(q)
           /\ inflight[p].session_id = inflight[q].session_id
           /\ inflight[p].seen = inflight[q].seen) =>
              swipes[inflight[p].swipe_id[1]].swipe_order =
                  swipes[inflight[q].swipe_id[1]].swipe_order

\* two swipes of one session carry the same order
C22_Witness ==
    \E i, j \in 1..Len(swipes) :
        /\ i # j
        /\ swipes[i].session_id = swipes[j].session_id
        /\ swipes[i].swipe_order = swipes[j].swipe_order
        /\ \E p, q \in RequestIds :
              /\ p # q /\ Written(p) /\ Written(q)
              /\ inflight[p].swipe_id = Some(i)
              /\ inflight[q].swipe_id = Some(j)
              /\ inflight[p].seen = inflight[q].seen

\* C25: a POST /api/swipe whose song step yields no song id ends there with
\* status "error" and HTTP 500 and writes no swipe; one whose record_swipe fails
\* answers the error without a swipe_id and writes no swipe; a success response
\* comes with exactly one new Swipes row, under the reported swipe_id, for the
\* request's session, song and direction.
C25_SwipeAllOrNothing ==
    [][\A r \in RequestIds :
          (inflight[r].kind = "swipe" /\ Running(r) /\ inflight'[r].pc = "done") =>
              /\ resp'.op = "swipe"
              /\ resp'.request = r
              /\ inflight[r].pc \in {"song_insert", "swipe_insert"}
              /\ inflight[r].pc = "song_insert" =>
                    (resp'.status = "error" /\ inflight'[r].song_id = None)
              /\ resp'.status # "success" =>
                    /\ resp'.status = "error"
                    /\ resp'.http = 500
                    /\ resp'.swipe_id = None
                    /\ swipes' = swipes
              /\ resp'.status = "success" =>
                    /\ resp'.http = 200
                    /\ Len(swipes') = Len(swipes) + 1
                    /\ \A i \in 1..Len(swipes) : swipes'[i] = swipes[i]
                    /\ resp'.swipe_id = Some(Len(swipes'))
                    /\ swipes'[Len(swipes')].session_id = inflight[r].session_id
                    /\ swipes'[Len(swipes')].direction = inflight[r].direction
                    /\ swipes'[Len(swipes')].song_id \in 1..Len(songs)
                    /\ songs[swipes'[Len(swipes')].song_id].spotify_id =
                          inflight[r].spotify_id]_vars

\* the song step failed: error answer, no swipe
C25_Witness ==
    \E r \in RequestIds :
        /\ inflight[r].kind = "swipe"
        /\ inflight[r].pc = "done"
        /\ inflight[r].song_error = "database error"
        /\ resp = [op |-> "swipe", request |-> r, http |-> 500, status |-> "error",
                   swipe_id |-> None]
        /\ swipes = <<>>

\* record_swipe failed after the song was stored: error answer, no swipe
C25_WitnessSwipeFails ==
    \E r \in RequestIds :
        /\ inflight[r].kind = "swipe"
        /\ inflight[r].pc = "done"
        /\ inflight[r].song_id # None
        /\ inflight[r].status = "error"
        /\ resp.op = "swipe" /\ resp.request = r /\ resp.http = 500
        /\ swipes = <<>>

\* a swipe request answered with success
C25_WitnessSuccess ==
    \E r \in RequestIds :
        /\ Written(r)
        /\ resp.op = "swipe" /\ resp.request = r /\ resp.status = "success"

\* C26: every Swipes row references a Songs row and a SwipeSessions row that
\* exist, and the song a request stored stays stored whatever happens to the
\* request afterwards: after a crash or a failure between the two steps the Songs
\* row is there without a swipe.
C26_StepsCommitSeparately ==
    /\ \A i \in 1..Len(swipes) :
          /\ swipes[i].song_id \in 1..Len(songs)
          /\ swipes[i].session_id \in 1..Len(sessions)
    /\ \A r \in RequestIds :
          inflight[r].song_id # None =>
              /\ inflight[r].song_id[1] \in 1..Len(songs)
              /\ songs[inflight[r].song_id[1]].spotify_id = inflight[r].spotify_id

\* a request crashed between its two steps: its song has a row and no swipe
C26_Witness ==
    \E r \in RequestIds :
        /\ inflight[r].kind = "swipe"
        /\ inflight[r].pc = "crashed"
        /\ inflight[r].existing_song = None
        /\ inflight[r].song_id # None
        /\ songs[inflight[r].song_id[1]].spotify_id = inflight[r].spotify_id
        /\ \A i \in 1..Len(swipes) : swipes[i].song_id # inflight[r].song_id[1]

\* C28: the swipe_order values of each session are exactly 1..k for some k >= 0,
\* also when requests interleave and write duplicates.
C28_NoGaps ==
    \A s \in 1..Len(sessions) :
        LET orders == {swipes[i].swipe_order :
                          i \in {j \in 1..Len(swipes) : swipes[j].session_id = s}}
        IN  orders = 1..Cardinality(orders)

\* a duplicate order followed by the next number: 1, 1, 2
C28_Witness ==
    /\ Len(swipes) = 3
    /\ swipes[1].swipe_order = 1
    /\ swipes[2].swipe_order = 1
    /\ swipes[3].swipe_order = 2
    /\ \A i \in 1..3 : swipes[i].session_id = 1

====
